---- MODULE Spec2Model ----
(***************************************************************************)
(* Speech-to-text worker pipeline: the RabbitMQ consumer handler           *)
(* (internal/consumer/handlers/stt_handler.py), the orchestrator           *)
(* (speech2text/worker/processor.py) and the Mongo job repository          *)
(* (repositories/task_repository.py); then the audio chunker, the use-case *)
(* orchestrator over the Mongo adapter, the job submitters, the            *)
(* TranscribeService, the transcriber's retry loop, the worker pool of the *)
(* transcribe phase and the result merger, the Whisper model downloader    *)
(* (worker/model_downloader.py), the consumer service with its shutdown    *)
(* (cmd/consumer/main.py) and the consume loop under fair scheduling, each *)
(* with a specification of its own.                                        *)
(*                                                                         *)
(* One worker handles one delivery at a time (max_concurrent_jobs = 1).    *)
(* Every awaited call of the orchestrator is one step; a fault of the      *)
(* JobStore, the BlobStore, the chunker or the broker is an input drawn    *)
(* with \E at the step that performs the call.                             *)
(***************************************************************************)
EXTENDS Integers, Sequences, FiniteSets, TLC

VARIABLES
    settings,        \* [use_parallel_transcription : BOOLEAN]
    store,           \* JobStore: job id -> job document, or NoJob
    blobs,           \* BlobStore: set of [path, content] objects, one per path
    audio,           \* the uploaded audio of a job: [n, ok], fixed at submission
    msgs,            \* broker: the messages it holds, [kind, job, state, deliveries, acks]
    pc,              \* position of the worker inside handle_stt_message / process_stt_job
    cur,             \* message handed to the handler, as delivered (NoMsg: none)
    job_id,          \* job_id decoded by the handler (NoId: none)
    err,             \* exception in flight inside process_stt_job
    outcome,         \* how process_stt_job ended for the handler
    disp,            \* disposition calls issued on the current message, in order
    temp_dir,        \* TRUE while the run's temporary directory exists
    chunks,          \* chunk list of the run: number of chunks (indices 0..chunks-1)
    done,            \* chunk indices whose future has completed
    transcribed_chunks, \* successful chunk indices, in completion order
    chunk_status,    \* in-memory status of each chunk dictionary of the run
    final_transcription, \* merged text of the run
    progressWrites,  \* chunks_completed writes sent to the JobStore in this run
    retryAtStart,    \* retry_count of the job when the delivery started
    chunk_fault,     \* what failed inside _chunk_audio in this delivery ("none": nothing)
    seenFailed,      \* job ids whose stored status has been FAILED at some time
    chunkerIn,       \* AudioChunker.chunk_audio: the call's input (NoCall: none)
    chunkerOut,      \* AudioChunker.chunk_audio: the returned chunk_index list
    collection,      \* submitter: the documents inserted into the jobs collection
    queue,           \* submitter: the messages published, in order
    submits,         \* submitter: the submit calls made, with what each did
    runs,            \* ProcessJobUseCase / process_stt_job runs on one document
    request,         \* TranscribeService.transcribe_from_url: the call in progress
    retry,           \* WhisperTranscriber.transcribe_with_retry: the call in progress
    pool,            \* ThreadPoolExecutor of _transcribe_chunks_parallel
    merger,          \* completion order of a job's chunks and the text merged from it
    overlap,         \* ResultMerger._merge_with_overlap_removal: the call in progress
    downloader,      \* ModelDownloader: the model file, the validated set, the call
    consumer         \* ConsumerService: its connections, its in-flight handlers

vars == <<settings, store, blobs, audio, msgs, pc, cur, job_id, err, outcome, disp,
          temp_dir, chunks, done, transcribed_chunks, chunk_status,
          final_transcription, progressWrites, retryAtStart, chunk_fault, seenFailed,
          chunkerIn, chunkerOut, collection, queue, submits, runs, request,
          retry, pool, merger, overlap, downloader, consumer>>

\* State of the services and helpers that are modelled one call at a time.
AuxVars == <<downloader, consumer>>
ServiceVars == <<request, retry, pool, merger, overlap, AuxVars>>

\* State of the chunker, the submitter, the use-case runs and the services,
\* which the consumer pipeline below does not touch.
SideVars == <<chunkerIn, chunkerOut, collection, queue, submits, runs, ServiceVars>>

----------------------------------------------------------------------------
(* Bounds *)
MaxChunks == 2
MaxMsgs == 2
MaxDeliveries == 2
FanChunks == 6

----------------------------------------------------------------------------
(* Values *)
JobIds == {"j1", "j2"}
Submittable == {"j1"}
NoId == "NoId"
NoJob == [status |-> "NoJob"]
NoText == <<-1>>
NoPath == <<>>
NoError == "None"

PENDING == "PENDING"
PROCESSING == "PROCESSING"
COMPLETED == "COMPLETED"
FAILED == "FAILED"
JobStatus == {PENDING, PROCESSING, COMPLETED, FAILED}

Malformed == {"undecodable", "badjson", "nonobject", "nojobid"}

\* JobModel defaults (repositories/models.py)
JobModel == [status |-> PENDING, retry_count |-> 0, error_message |-> NoError,
             chunks_total |-> -1, chunks_completed |-> 0, chunks |-> <<>>,
             transcription_text |-> NoText, minio_result_path |-> NoPath,
             audio_duration_seconds |-> FALSE,
             started_at |-> FALSE, completed_at |-> FALSE]

NoMsg == [kind |-> "none", job |-> NoId, state |-> "none",
          deliveries |-> 0, acks |-> 0]

NoCall == [strategy |-> "none"]
NoRequest == [pc |-> "none"]
NoChunks == <<-1>>
None == "None"

Exists(j) == store[j] # NoJob

----------------------------------------------------------------------------
(* JobStore operations: repositories/task_repository.py *)

\* update_job: $set of the fields of the patch that are not None on the
\* matched document; no document matched: nothing is written.
update_job(s, j, patch) ==
    IF s[j] = NoJob THEN s
    ELSE [s EXCEPT ![j] = [f \in DOMAIN s[j] |->
                             IF f \in DOMAIN patch THEN patch[f] ELSE s[j][f]]]

\* update_status: status, error_message when given, started_at on PROCESSING,
\* completed_at on a terminal status.
update_status(s, j, status, error_message) ==
    LET fields == {"status"}
                  \cup (IF error_message # NoError THEN {"error_message"} ELSE {})
                  \cup (IF status = PROCESSING THEN {"started_at"}
                        ELSE IF status \in {COMPLETED, FAILED} THEN {"completed_at"}
                        ELSE {})
        patch == [f \in fields |->
                    CASE f = "status" -> status
                      [] f = "error_message" -> error_message
                      [] OTHER -> TRUE]
    IN update_job(s, j, patch)

\* increment_retry_count: $inc retry_count by 1 on the matched document.
increment_retry_count(s, j) ==
    IF s[j] = NoJob THEN s
    ELSE [s EXCEPT ![j].retry_count = @ + 1]

\* update_chunks: chunks and chunks_total of the chunk list.
update_chunks_short_total(s, j, n) ==
    update_job(s, j, [chunks |-> [i \in 1..n |-> PENDING], chunks_total |-> n - 1])
update_chunks(s, j, n) ==
    update_job(s, j, [chunks |-> [i \in 1..n |-> PENDING], chunks_total |-> n])

----------------------------------------------------------------------------
(* Pure helpers of the orchestrator *)

\* _upload_results_to_minio: results/result_<job_id>.txt
ResultPath(j) == <<"results/result_", j, ".txt">>

RECURSIVE SortedSeq(_)
SortedSeq(S) ==
    IF S = {} THEN <<>>
    ELSE LET m == CHOOSE x \in S : \A y \in S : x <= y
         IN <<m>> \o SortedSeq(S \ {m})

Range(sq) == {sq[i] : i \in 1..Len(sq)}

\* The text of chunk i is the token i; a merged document is the sequence of
\* the tokens of the merged chunks.
merge_chunks_unsorted(transcribed) == transcribed
\* ResultMerger.merge_chunks: sort by chunk_index, then join.
merge_chunks(transcribed) == SortedSeq(Range(transcribed))

\* upload_file: put the object, replacing one at the same path.
upload_file_lost(b, path, content) == b
upload_file(b, path, content) ==
    {o \in b : o.path # path} \cup {[path |-> path, content |-> content]}

\* Milestone decision of _transcribe_chunks_parallel, on the number of
\* successful chunks so far: progress_pct = (k / total) * 100.
should_update_db(k, total) ==
    IF k = 1 THEN TRUE
    ELSE IF k = total THEN TRUE
    ELSE IF total >= 4
         THEN (k * 100 >= 50 * total /\ k * 100 < 55 * total)
              \/ (k * 100 >= 75 * total /\ k * 100 < 80 * total)
         ELSE FALSE

\* handle_stt_message: the disposition call of each except / success branch.
disposition_requeues_permanent(o) ==
    IF o = "ok" THEN "ack" ELSE "requeue"
disposition(o) ==
    CASE o = "ok" -> "ack"
      [] o = "transient" -> "requeue"
      [] o = "permanent" -> "reject"
      [] OTHER -> "requeue"

----------------------------------------------------------------------------
(* Initial state *)
InitRun ==
    /\ pc = "idle" /\ cur = NoMsg /\ job_id = NoId /\ err = "none" /\ outcome = "none"
    /\ disp = <<>> /\ temp_dir = FALSE /\ chunks = 0 /\ done = {}
    /\ transcribed_chunks = <<>> /\ chunk_status = <<>>
    /\ final_transcription = NoText /\ progressWrites = 0 /\ retryAtStart = 0
    /\ chunk_fault = "none"

\* No model download, no consumer process.
InitAux == downloader = NoRequest /\ consumer = NoRequest

\* No service call.
InitServices ==
    /\ request = NoRequest
    /\ retry = NoRequest
    /\ pool = NoRequest
    /\ merger = NoRequest
    /\ overlap = NoRequest
    /\ InitAux

\* Nothing submitted, no chunker call, no use-case run, no service call.
InitSide ==
    /\ chunkerIn = NoCall /\ chunkerOut = NoChunks
    /\ collection = <<>> /\ queue = <<>> /\ submits = <<>>
    /\ runs = <<>>
    /\ InitServices

Init ==
    /\ settings \in [use_parallel_transcription : BOOLEAN]
    /\ store = [j \in JobIds |-> NoJob]
    /\ blobs = {}
    /\ audio = [j \in JobIds |-> [n |-> 0, ok |-> {}]]
    /\ msgs = {}
    /\ seenFailed = {}
    /\ InitRun
    /\ InitSide

----------------------------------------------------------------------------
(* Environment: stored jobs, foreign publishers, broker redelivery *)

Msg(kind, j) == [kind |-> kind, job |-> j, state |-> "queued",
                 deliveries |-> 0, acks |-> 0]

InQueue(kind, j) == \E x \in msgs : x.kind = kind /\ x.job = j

RunVars == <<pc, cur, job_id, err, outcome, disp, temp_dir, chunks, done,
             transcribed_chunks, chunk_status, final_transcription,
             progressWrites, retryAtStart, chunk_fault>>

\* The jobs collection holds a PENDING document whose job_id field is j, the
\* key TaskRepository.get_job queries, and the queue holds the message that
\* names it.  The audio the job points at is an input.
PublishStoredJob(j, n, ok) ==
    /\ j \in Submittable /\ ~Exists(j) /\ Cardinality(msgs) < MaxMsgs
    /\ store' = [store EXCEPT ![j] = JobModel]
    /\ audio' = [audio EXCEPT ![j] = [n |-> n, ok |-> ok]]
    /\ msgs' = msgs \cup {Msg("valid", j)}
    /\ UNCHANGED <<settings, blobs, seenFailed, SideVars>> /\ UNCHANGED RunVars

\* A publisher other than the submitter puts a well-formed message on the
\* queue that names a job id the JobStore never assigned.
PublishUnknownJob(j) ==
    /\ Cardinality(msgs) < MaxMsgs /\ ~InQueue("valid", j)
    /\ j \in JobIds \ Submittable
    /\ msgs' = msgs \cup {Msg("valid", j)}
    /\ UNCHANGED <<settings, store, blobs, audio, seenFailed, SideVars>> /\ UNCHANGED RunVars

\* A publisher puts a malformed body on the queue: bytes that are not UTF-8,
\* text that is not JSON, JSON that is not an object, an object without job_id.
PublishMalformed(kind) ==
    /\ Cardinality(msgs) < MaxMsgs /\ ~InQueue(kind, NoId)
    /\ kind \in Malformed
    /\ msgs' = msgs \cup {Msg(kind, NoId)}
    /\ UNCHANGED <<settings, store, blobs, audio, seenFailed, SideVars>> /\ UNCHANGED RunVars

\* At-least-once delivery: the broker may deliver again a message whose
\* acknowledgement it did not record.
Redeliver(m) ==
    /\ m \in msgs /\ m.state = "acked" /\ m.deliveries < MaxDeliveries
    /\ msgs' = (msgs \ {m}) \cup {[m EXCEPT !.state = "queued"]}
    /\ UNCHANGED <<settings, store, blobs, audio, seenFailed, SideVars>> /\ UNCHANGED RunVars

----------------------------------------------------------------------------
(* handle_stt_message *)

\* message.ack(): the message stays known to the broker as acknowledged.
ack(m) == (msgs \ {m}) \cup {[m EXCEPT !.state = "acked", !.acks = @ + 1]}
\* message.reject(requeue=True): back to the queue.
requeue(m) == (msgs \ {m}) \cup {[m EXCEPT !.state = "queued"]}
\* message.reject(requeue=False): dead-lettered, it leaves the queue.
reject(m) == msgs \ {m}

Apply(call, m) ==
    CASE call = "ack" -> ack(m)
      [] call = "requeue" -> requeue(m)
      [] OTHER -> reject(m)

\* consume_jobs hands the next message to the handler (prefetch 1).
Deliver(m) ==
    /\ pc = "idle" /\ m \in msgs /\ m.state = "queued" /\ m.deliveries < MaxDeliveries
    /\ LET d == [m EXCEPT !.state = "inflight", !.deliveries = @ + 1] IN
       /\ msgs' = (msgs \ {m}) \cup {d}
       /\ cur' = d
    /\ pc' = "decode"
    /\ job_id' = NoId /\ err' = "none" /\ outcome' = "none" /\ disp' = <<>>
    /\ temp_dir' = FALSE /\ chunks' = 0 /\ done' = {} /\ transcribed_chunks' = <<>>
    /\ chunk_status' = <<>> /\ final_transcription' = NoText
    /\ progressWrites' = 0 /\ retryAtStart' = 0 /\ chunk_fault' = "none"
    /\ UNCHANGED <<settings, store, blobs, audio, seenFailed, SideVars>>

\* Lines 32-57: decode the body, parse the JSON, read job_id.
\*   body.decode raises UnicodeDecodeError      -> except Exception (requeue)
\*   json.loads raises JSONDecodeError          -> reject(requeue=False)
\*   message_data.get raises AttributeError     -> except Exception (requeue)
\*   job_id missing or empty                    -> reject(requeue=False)
\* The two reject calls are inside the outer try: one that raises lands in
\* `except Exception` and is followed by reject(requeue=True).
handle_stt_message_decode ==
    /\ pc = "decode"
    /\ IF cur.kind = "valid"
       THEN /\ job_id' = cur.job
            /\ retryAtStart' = IF Exists(cur.job) THEN store[cur.job].retry_count ELSE 0
            /\ pc' = "get_job"
            /\ UNCHANGED <<msgs, disp>>
       ELSE LET call == IF cur.kind \in {"badjson", "nojobid"} THEN "reject"
                        ELSE disposition("unexpected")
            IN /\ \/ /\ disp' = <<call>>
                     /\ msgs' = Apply(call, cur)
                  \/ /\ call = "reject"
                     /\ disp' = <<"reject", "requeue">>
                     /\ msgs' = requeue(cur)
               /\ pc' = "idle"
               /\ UNCHANGED <<job_id, retryAtStart>>
    /\ UNCHANGED <<settings, store, blobs, audio, seenFailed, SideVars, cur, err, outcome,
                   temp_dir, chunks, done, transcribed_chunks, chunk_status,
                   final_transcription, progressWrites, chunk_fault>>

\* Lines 61-96: translate the outcome of process_stt_job into a disposition.
\* An ack that raises lands in `except Exception` and is followed by
\* reject(requeue=True).
handle_stt_message_dispose ==
    /\ pc = "dispose"
    /\ LET call == disposition(outcome) IN
       \/ /\ disp' = <<call>>
          /\ msgs' = Apply(call, cur)
       \/ /\ call = "ack"
          /\ disp' = <<"ack", "requeue">>
          /\ msgs' = requeue(cur)
    /\ pc' = "idle"
    \* the locals of process_stt_job are gone once the handler returns
    /\ err' = "none" /\ temp_dir' = FALSE /\ chunks' = 0 /\ done' = {}
    /\ transcribed_chunks' = <<>> /\ chunk_status' = <<>>
    /\ final_transcription' = NoText /\ progressWrites' = 0
    /\ UNCHANGED <<settings, store, blobs, audio, seenFailed, SideVars, cur, job_id,
                   outcome, retryAtStart, chunk_fault>>

----------------------------------------------------------------------------
(* process_stt_job: speech2text/worker/processor.py *)

StoreVars == <<settings, blobs, audio, msgs, cur, job_id, disp, retryAtStart,
               chunk_fault, SideVars>>
ChunkVars == <<chunks, done, transcribed_chunks, chunk_status, progressWrites>>

NoteFailed(s) == seenFailed \cup {j \in JobIds : s[j].status = FAILED}

Raise(kind) == err' = kind /\ pc' = "except"

\* Lines 70-79: repo.get_job; a missing job is a PermanentError, a failing
\* query an unexpected exception.
get_job_unchecked ==
    /\ pc = "get_job"
    /\ \/ Raise("unexpected")
       \/ pc' = "set_processing" /\ UNCHANGED err
    /\ UNCHANGED <<store, seenFailed, outcome, temp_dir, final_transcription>>
    /\ UNCHANGED StoreVars /\ UNCHANGED ChunkVars
get_job ==
    /\ pc = "get_job"
    /\ \/ Raise("unexpected")
       \/ IF Exists(job_id) THEN pc' = "set_processing" /\ UNCHANGED err
          ELSE Raise("permanent")
    /\ UNCHANGED <<store, seenFailed, outcome, temp_dir, final_transcription>>
    /\ UNCHANGED StoreVars /\ UNCHANGED ChunkVars

\* Lines 85-91: update_status(PROCESSING), then mkdtemp.
set_processing ==
    /\ pc = "set_processing"
    /\ \/ Raise("unexpected") /\ UNCHANGED <<store, temp_dir>>
       \/ /\ store' = update_status(store, job_id, PROCESSING, NoError)
          /\ temp_dir' = TRUE
          /\ pc' = "download" /\ UNCHANGED err
    /\ UNCHANGED <<seenFailed, outcome, final_transcription>>
    /\ UNCHANGED StoreVars /\ UNCHANGED ChunkVars

\* Lines 93-104 and _download_audio_from_minio: every download failure is
\* re-raised as TransientError; the duration is measured and stored best
\* effort, a failure there is only logged.
download_audio_from_minio ==
    /\ pc = "download"
    /\ \/ Raise("transient") /\ UNCHANGED store
       \/ /\ \/ store' = update_job(store, job_id, [audio_duration_seconds |-> TRUE])
             \/ UNCHANGED store
          /\ pc' = "chunk" /\ UNCHANGED err
    /\ UNCHANGED <<seenFailed, outcome, temp_dir, final_transcription>>
    /\ UNCHANGED StoreVars /\ UNCHANGED ChunkVars

\* What can fail inside _chunk_audio, by the statement that raises:
\*   makedirs            os.makedirs of the chunks directory (processor.py:299)
\*   file_missing        _validate_audio_file: the path does not exist
\*   unsupported_format  _validate_audio_file: extension not in SUPPORTED_FORMATS
\*   decoder_missing     AudioSegment.from_file: FileNotFoundError naming ffprobe
\*   load_file_missing   AudioSegment.from_file: another FileNotFoundError
\*   corrupted           AudioSegment.from_file: the decoder cannot read the bytes
\*   strategy            the output mkdir, the chunking strategy or the statistics
ChunkFaults == {"makedirs", "file_missing", "unsupported_format", "decoder_missing",
                "load_file_missing", "corrupted", "strategy"}

\* _validate_audio_file: the exception it raises for a fault.
validate_audio_file(fault) ==
    CASE fault = "file_missing" -> "FileNotFoundError"
      [] fault = "unsupported_format" -> "InvalidAudioFormatError"
      [] OTHER -> "none"

\* _load_audio: the exception it raises when AudioSegment.from_file raises
\* class exc with names_decoder telling whether the message names
\* ffmpeg / ffprobe / avprobe.
load_audio(exc, names_decoder) ==
    IF names_decoder THEN "MissingDependencyError"
    ELSE IF exc = "FileNotFoundError" THEN "FileNotFoundError"
    ELSE "CorruptedFileError"

\* AudioChunker.chunk_audio: every except clause re-raises what it caught.
chunk_audio_raises(fault, names_decoder) ==
    CASE fault = "makedirs" -> "OSError"
      [] fault \in {"file_missing", "unsupported_format"} -> validate_audio_file(fault)
      [] fault = "decoder_missing" -> load_audio("FileNotFoundError", TRUE)
      [] fault = "load_file_missing" -> load_audio("FileNotFoundError", FALSE)
      [] fault = "corrupted" -> load_audio("CouldntDecodeError", names_decoder)
      [] OTHER -> "Exception"

\* _chunk_audio, lines 317-333: the except clauses.
chunk_audio_except(exc) ==
    IF exc \in {"MissingDependencyError", "InvalidAudioFormatError", "CorruptedFileError"}
    THEN "permanent"
    ELSE "transient"

\* Lines 106-109 and _chunk_audio: a missing decoder, an invalid format and a
\* corrupted file are re-raised as PermanentError, anything else as
\* TransientError.  The text of a decode error is the decoder library's.
chunk_audio ==
    /\ pc = "chunk"
    /\ \/ \E fault \in ChunkFaults, names_decoder \in BOOLEAN :
            /\ chunk_fault' = fault
            /\ Raise(chunk_audio_except(chunk_audio_raises(fault, names_decoder)))
            /\ UNCHANGED chunks
       \/ /\ chunks' = audio[job_id].n
          /\ pc' = "update_chunks" /\ UNCHANGED <<err, chunk_fault>>
    /\ UNCHANGED <<store, seenFailed, outcome, temp_dir, final_transcription,
                   done, transcribed_chunks, chunk_status, progressWrites>>
    /\ UNCHANGED <<settings, blobs, audio, msgs, cur, job_id, disp, retryAtStart, SideVars>>

\* Line 112: repo.update_chunks.
persist_chunks ==
    /\ pc = "update_chunks"
    /\ \/ Raise("unexpected") /\ UNCHANGED <<store, chunk_status>>
       \/ /\ store' = update_chunks(store, job_id, chunks)
          /\ chunk_status' = [i \in 1..chunks |-> PENDING]
          /\ pc' = "transcribe" /\ UNCHANGED err
    /\ UNCHANGED <<seenFailed, outcome, temp_dir, final_transcription,
                   chunks, done, transcribed_chunks, progressWrites>>
    /\ UNCHANGED StoreVars

\* _transcribe_chunks line 535: the parallel path needs the setting and more
\* than one chunk.
Parallel == settings.use_parallel_transcription /\ chunks > 1

\* transcribe_with_retry on chunk c succeeds exactly for the chunks of the
\* audio that the transcriber can transcribe.
Succeeds(c) == c \in audio[job_id].ok

\* _transcribe_chunks_parallel lines 450-497: one iteration of as_completed.
\* The progress write is inside the try of the iteration; a failing write is
\* logged and the loop goes on.
transcribe_chunks_parallel(c) ==
    /\ pc = "transcribe" /\ Parallel
    /\ c \in 0..(chunks - 1) /\ c \notin done
    /\ done' = done \cup {c}
    /\ chunk_status' = [chunk_status EXCEPT ![c + 1] =
                          IF Succeeds(c) THEN COMPLETED ELSE FAILED]
    /\ transcribed_chunks' = IF Succeeds(c) THEN Append(transcribed_chunks, c)
                             ELSE transcribed_chunks
    /\ IF should_update_db(Len(transcribed_chunks'), chunks)
       THEN /\ progressWrites' = progressWrites + 1
            /\ \/ store' = update_job(store, job_id,
                              [chunks_completed |-> Len(transcribed_chunks')])
               \/ UNCHANGED store
       ELSE UNCHANGED <<progressWrites, store>>
    /\ UNCHANGED <<pc, err, seenFailed, outcome, temp_dir, final_transcription, chunks>>
    /\ UNCHANGED StoreVars

\* Lines 507-510 and 596-604: no successful chunk is a PermanentError.
transcribe_finish_any_failure ==
    /\ pc = "transcribe"
    /\ done = 0..(chunks - 1)
    /\ IF Len(transcribed_chunks) < chunks \/ transcribed_chunks = <<>>
       THEN Raise("permanent")
       ELSE pc' = "merge" /\ UNCHANGED err
    /\ UNCHANGED <<store, seenFailed, outcome, temp_dir, final_transcription>>
    /\ UNCHANGED StoreVars /\ UNCHANGED ChunkVars
transcribe_finish ==
    /\ pc = "transcribe"
    /\ done = 0..(chunks - 1)
    /\ IF transcribed_chunks = <<>> THEN Raise("permanent")
       ELSE pc' = "merge" /\ UNCHANGED err
    /\ UNCHANGED <<store, seenFailed, outcome, temp_dir, final_transcription>>
    /\ UNCHANGED StoreVars /\ UNCHANGED ChunkVars

\* _transcribe_chunks lines 549-594: one iteration of the sequential loop, in
\* index order.  The progress write follows every successful chunk; when it
\* raises, the except of the iteration marks the chunk FAILED although it is
\* already in transcribed_chunks.
transcribe_chunks ==
    /\ pc = "transcribe" /\ ~Parallel
    /\ Cardinality(done) < chunks
    /\ LET c == Cardinality(done) IN
       /\ done' = done \cup {c}
       /\ IF Succeeds(c)
          THEN /\ transcribed_chunks' = Append(transcribed_chunks, c)
               /\ progressWrites' = progressWrites + 1
               /\ \/ /\ store' = update_job(store, job_id,
                                    [chunks_completed |-> Len(transcribed_chunks')])
                     /\ chunk_status' = [chunk_status EXCEPT ![c + 1] = COMPLETED]
                  \/ /\ UNCHANGED store
                     /\ chunk_status' = [chunk_status EXCEPT ![c + 1] = FAILED]
          ELSE /\ chunk_status' = [chunk_status EXCEPT ![c + 1] = FAILED]
               /\ UNCHANGED <<transcribed_chunks, progressWrites, store>>
    /\ UNCHANGED <<pc, err, seenFailed, outcome, temp_dir, final_transcription, chunks>>
    /\ UNCHANGED StoreVars

\* Lines 119-122 and _merge_results.
merge_results ==
    /\ pc = "merge"
    /\ final_transcription' = merge_chunks(transcribed_chunks)
    /\ pc' = "upload"
    /\ UNCHANGED <<store, seenFailed, outcome, temp_dir, err>>
    /\ UNCHANGED StoreVars /\ UNCHANGED ChunkVars

\* Lines 124-127 and _upload_results_to_minio: every upload failure is
\* re-raised as TransientError.
upload_results_to_minio ==
    /\ pc = "upload"
    /\ \/ Raise("transient") /\ UNCHANGED blobs
       \/ /\ blobs' = upload_file(blobs, ResultPath(job_id), final_transcription)
          /\ pc' = "complete" /\ UNCHANGED err
    /\ UNCHANGED <<settings, store, audio, msgs, cur, job_id, disp, retryAtStart,
                   chunk_fault, seenFailed, outcome, temp_dir, final_transcription, SideVars>>
    /\ UNCHANGED ChunkVars

\* Lines 129-168: the closing patch, then the normal return.
complete_job ==
    /\ pc = "complete"
    /\ \/ Raise("unexpected") /\ UNCHANGED <<store, outcome>>
       \/ /\ store' = update_job(store, job_id,
                        [status |-> COMPLETED,
                         transcription_text |-> final_transcription,
                         minio_result_path |-> ResultPath(job_id),
                         chunks_completed |-> Len(transcribed_chunks),
                         completed_at |-> TRUE])
          /\ outcome' = "ok"
          /\ pc' = "finally" /\ UNCHANGED err
    /\ UNCHANGED <<seenFailed, temp_dir, final_transcription>>
    /\ UNCHANGED StoreVars /\ UNCHANGED ChunkVars

\* Lines 177-226: the except branches.  Each JobStore write is wrapped in its
\* own try: a failing write is logged and the error is re-raised all the same.
\*   PermanentError -> update_status(FAILED, str(e))
\*   TransientError -> increment_retry_count
\*   Exception      -> update_status(FAILED, str(e))
except_branch_returns ==
    /\ pc = "except"
    /\ \/ store' = IF err = "transient" THEN increment_retry_count(store, job_id)
                   ELSE update_status(store, job_id, FAILED, err)
       \/ UNCHANGED store
    /\ seenFailed' = NoteFailed(store')
    /\ outcome' = IF err = "transient" THEN "ok" ELSE err
    /\ pc' = "finally"
    /\ UNCHANGED <<err, temp_dir, final_transcription>>
    /\ UNCHANGED StoreVars /\ UNCHANGED ChunkVars
except_branch ==
    /\ pc = "except"
    /\ \/ store' = IF err = "transient" THEN increment_retry_count(store, job_id)
                   ELSE update_status(store, job_id, FAILED, err)
       \/ UNCHANGED store
    /\ seenFailed' = NoteFailed(store')
    /\ outcome' = err
    /\ pc' = "finally"
    /\ UNCHANGED <<err, temp_dir, final_transcription>>
    /\ UNCHANGED StoreVars /\ UNCHANGED ChunkVars

\* Lines 228-236: rmtree of the temporary directory; a failing rmtree is
\* logged.
finally_cleanup ==
    /\ pc = "finally"
    /\ temp_dir' \in (IF temp_dir THEN {FALSE, TRUE} ELSE {FALSE})
    /\ pc' = "dispose"
    /\ UNCHANGED <<store, seenFailed, outcome, err, final_transcription>>
    /\ UNCHANGED StoreVars /\ UNCHANGED ChunkVars

----------------------------------------------------------------------------
Next ==
    \/ \E j \in JobIds, n \in 0..MaxChunks : \E ok \in SUBSET (0..(n - 1)) : PublishStoredJob(j, n, ok)
    \/ \E j \in JobIds : PublishUnknownJob(j)
    \/ \E m \in msgs : Redeliver(m)
    \/ \E m \in msgs : Deliver(m)
    \/ handle_stt_message_decode
    \/ get_job
    \/ set_processing
    \/ download_audio_from_minio
    \/ chunk_audio
    \/ persist_chunks
    \/ \E c \in 0..(MaxChunks - 1) : transcribe_chunks_parallel(c)
    \/ transcribe_chunks
    \/ transcribe_finish
    \/ merge_results
    \/ upload_results_to_minio
    \/ complete_job
    \/ except_branch
    \/ finally_cleanup
    \/ handle_stt_message_dispose

\* Publishers send well-formed messages.
Spec == Init /\ [][Next]_vars

\* Publishers may also send malformed bodies.
NextAnyBody ==
    \/ Next
    \/ \E k \in Malformed : PublishMalformed(k)

SpecAnyBody == Init /\ [][NextAnyBody]_vars

\* The transcribe phase alone, on a job of up to FanChunks chunks that has
\* just been chunked (PROCESSING, chunk list stored).
FanJob == "j1"
FanMsg == [kind |-> "valid", job |-> FanJob, state |-> "inflight",
           deliveries |-> 1, acks |-> 0]

InitFanout ==
    /\ settings \in [use_parallel_transcription : BOOLEAN]
    /\ \E n \in 1..FanChunks : \E ok \in SUBSET (0..(n - 1)) :
         /\ audio = [j \in JobIds |-> IF j = FanJob THEN [n |-> n, ok |-> ok]
                                      ELSE [n |-> 0, ok |-> {}]]
         /\ store = [j \in JobIds |->
                       IF j = FanJob
                       THEN [JobModel EXCEPT !.status = PROCESSING, !.started_at = TRUE,
                                             !.chunks_total = n,
                                             !.chunks = [i \in 1..n |-> PENDING]]
                       ELSE NoJob]
         /\ chunks = n
         /\ chunk_status = [i \in 1..n |-> PENDING]
    /\ blobs = {} /\ msgs = {FanMsg} /\ cur = FanMsg /\ seenFailed = {}
    /\ pc = "transcribe" /\ job_id = FanJob /\ err = "none" /\ outcome = "none"
    /\ disp = <<>> /\ temp_dir = TRUE /\ done = {} /\ transcribed_chunks = <<>>
    /\ final_transcription = NoText /\ progressWrites = 0 /\ retryAtStart = 0
    /\ chunk_fault = "none"
    /\ InitSide

NextFanout ==
    \/ \E c \in 0..(FanChunks - 1) : transcribe_chunks_parallel(c)
    \/ transcribe_chunks
    \/ transcribe_finish

SpecFanout == InitFanout /\ [][NextFanout]_vars

TypeOK ==
    /\ pc \in {"idle", "decode", "get_job", "set_processing", "download", "chunk",
               "update_chunks", "transcribe", "merge", "upload", "complete",
               "except", "finally", "dispose"}
    /\ \A j \in JobIds : store[j] = NoJob \/ store[j].status \in JobStatus
    /\ \A m \in msgs : m.deliveries <= MaxDeliveries
    /\ Cardinality(msgs) <= MaxMsgs
    /\ chunk_fault \in ChunkFaults \cup {"none"}

----------------------------------------------------------------------------
(* AudioChunker: speech2text/pipelines/stt/chunking.py *)

MaxRanges == 3
MaxSplit == 2
SubChunkOffset == 100

SeqsUpTo(S, n) == UNION {[1..k -> S] : k \in 0..n}

PipelineVars == <<settings, store, blobs, audio, msgs, seenFailed, RunVars>>

\* The consumer pipeline at rest.
IdlePipeline ==
    /\ settings = [use_parallel_transcription |-> TRUE]
    /\ store = [j \in JobIds |-> NoJob]
    /\ blobs = {}
    /\ audio = [j \in JobIds |-> [n |-> 0, ok |-> {}]]
    /\ msgs = {}
    /\ seenFailed = {}
    /\ InitRun

\* _split_chunk: sub-chunk k of a long range gets chunk_index index_offset + k.
split_chunk(d, index_offset) == [k \in 1..d |-> index_offset + (k - 1)]

\* _chunk_fixed_duration: segment i gets chunk_index i; a segment whose export
\* raises is logged and left out.
RECURSIVE chunk_fixed_duration_from(_, _)
chunk_fixed_duration_from(segments, i) ==
    IF i > Len(segments) THEN <<>>
    ELSE (IF segments[i] THEN <<i - 1>> ELSE <<>>)
         \o chunk_fixed_duration_from(segments, i + 1)

chunk_fixed_duration(segments) == chunk_fixed_duration_from(segments, 1)

\* The loop of _chunk_by_silence over enumerate(filtered_ranges).  A range is
\* given by its duration class d:
\*   0      shorter than min_chunk_duration (or its export raised): skipped
\*   1      kept as one chunk with chunk_index i
\*   d > 1  longer than max_chunk_duration: split into d sub-chunks, with
\*          index_offset i * 100
RECURSIVE chunk_by_silence_from(_, _)
chunk_by_silence_from(ranges, i) ==
    IF i > Len(ranges) THEN <<>>
    ELSE (CASE ranges[i] = 0 -> <<>>
            [] ranges[i] = 1 -> <<i - 1>>
            [] OTHER -> split_chunk(ranges[i], (i - 1) * SubChunkOffset))
         \o chunk_by_silence_from(ranges, i + 1)

\* _chunk_by_silence: no non-silent range, or a failing silence detection,
\* falls back to fixed-duration chunking.
chunk_by_silence(in) ==
    IF in.detect = "error" \/ in.ranges = <<>>
    THEN chunk_fixed_duration(in.segments)
    ELSE chunk_by_silence_from(in.ranges, 1)

\* AudioChunker.chunk_audio: choose the strategy, return the chunk list.
AudioChunker_chunk_audio ==
    /\ chunkerIn # NoCall /\ chunkerOut = NoChunks
    /\ chunkerOut' = IF chunkerIn.strategy = "silence_based"
                     THEN chunk_by_silence(chunkerIn)
                     ELSE chunk_fixed_duration(chunkerIn.segments)
    /\ UNCHANGED <<chunkerIn, collection, queue, submits, runs, ServiceVars>>
    /\ UNCHANGED PipelineVars

\* One call of the chunker on an audio given by its non-silent ranges (for
\* silence detection) and its fixed-duration segments.
InitChunker ==
    /\ IdlePipeline
    /\ chunkerIn \in [strategy : {"silence_based", "fixed_duration"},
                      detect : {"ok", "error"},
                      ranges : SeqsUpTo(0..MaxSplit, MaxRanges),
                      segments : SeqsUpTo(BOOLEAN, MaxRanges)]
    /\ chunkerOut = NoChunks
    /\ collection = <<>> /\ queue = <<>> /\ submits = <<>> /\ runs = <<>>
    /\ InitServices

NextChunker == AudioChunker_chunk_audio

SpecChunker == InitChunker /\ [][NextChunker]_vars

----------------------------------------------------------------------------
(* ProcessJobUseCase.execute over MongoTaskRepository, sharing one job        *)
(* document with runs of process_stt_job:                                     *)
(* speech2text/pipelines/stt/use_cases/process_job.py,                        *)
(* speech2text/adapters/mongo/task_repository.py                              *)

MaxRuns == 2
SharedJob == "j1"

Run(kind) == [kind |-> kind, pc |-> "get_job", job |-> NoJob]

UseCaseFrame ==
    /\ UNCHANGED <<settings, blobs, audio, msgs, seenFailed>> /\ UNCHANGED RunVars
    /\ UNCHANGED <<chunkerIn, chunkerOut, collection, queue, submits, ServiceVars>>

\* MongoTaskRepository.update_job: $set of every field of the entity the run
\* holds (model.to_dict() without id), retry_count included.
MongoTaskRepository_update_job(s, j, job) ==
    IF s[j] = NoJob THEN s ELSE [s EXCEPT ![j] = job]

\* A delivery of the job's message starts a run, in a worker that runs the
\* use case or in one that runs process_stt_job.
StartRun(kind) ==
    /\ Len(runs) < MaxRuns
    /\ runs' = Append(runs, Run(kind))
    /\ UNCHANGED store /\ UseCaseFrame

\* execute lines 54-57: job = repository.get_job(job_id).
execute_get_job(r) ==
    /\ runs[r].kind = "use_case" /\ runs[r].pc = "get_job"
    /\ runs' = [runs EXCEPT ![r].job = store[SharedJob], ![r].pc = "set_processing"]
    /\ UNCHANGED store /\ UseCaseFrame

\* execute lines 63-66: status PROCESSING on the entity, then update_job.
execute_set_processing(r) ==
    /\ runs[r].kind = "use_case" /\ runs[r].pc = "set_processing"
    /\ LET job == [runs[r].job EXCEPT !.status = PROCESSING, !.started_at = TRUE] IN
       \/ /\ store' = MongoTaskRepository_update_job(store, SharedJob, job)
          /\ runs' = [runs EXCEPT ![r].job = job, ![r].pc = "pipeline"]
       \/ /\ UNCHANGED store
          /\ runs' = [runs EXCEPT ![r].job = job, ![r].pc = "except"]
    /\ UseCaseFrame

\* execute lines 68-134: download, chunk, transcribe, merge, upload; the
\* chunk list, with the status process_chunk set on each chunk, and the chunk
\* counts are written with update_job on the way.
\* Any exception goes to the except branch.
execute_pipeline(r) ==
    /\ runs[r].kind = "use_case" /\ runs[r].pc = "pipeline"
    /\ \/ /\ runs' = [runs EXCEPT ![r].pc = "except"]
          /\ UNCHANGED store
       \/ LET job == [runs[r].job EXCEPT !.chunks = <<COMPLETED>>, !.chunks_total = 1,
                                         !.chunks_completed = 1] IN
          /\ store' = MongoTaskRepository_update_job(store, SharedJob, job)
          /\ runs' = [runs EXCEPT ![r].job = job, ![r].pc = "complete"]
    /\ UseCaseFrame

\* execute lines 139-146: COMPLETED on the entity, then update_job.
execute_complete(r) ==
    /\ runs[r].kind = "use_case" /\ runs[r].pc = "complete"
    /\ LET job == [runs[r].job EXCEPT !.status = COMPLETED,
                                      !.transcription_text = <<0>>,
                                      !.minio_result_path = ResultPath(SharedJob),
                                      !.completed_at = TRUE] IN
       \/ /\ store' = MongoTaskRepository_update_job(store, SharedJob, job)
          /\ runs' = [runs EXCEPT ![r].job = job, ![r].pc = "done"]
       \/ /\ UNCHANGED store
          /\ runs' = [runs EXCEPT ![r].job = job, ![r].pc = "except"]
    /\ UseCaseFrame

\* execute lines 160-174: FAILED and error_message on the entity, then
\* update_job; a failing write is logged.
execute_except(r) ==
    /\ runs[r].kind = "use_case" /\ runs[r].pc = "except"
    /\ LET job == [runs[r].job EXCEPT !.status = FAILED, !.error_message = "unexpected"] IN
       /\ \/ store' = MongoTaskRepository_update_job(store, SharedJob, job)
          \/ UNCHANGED store
       /\ runs' = [runs EXCEPT ![r].job = job, ![r].pc = "done"]
    /\ UseCaseFrame

\* process_stt_job lines 70-87: get_job, update_status(PROCESSING).
process_stt_job_start(r) ==
    /\ runs[r].kind = "processor" /\ runs[r].pc = "get_job"
    /\ store' = update_status(store, SharedJob, PROCESSING, NoError)
    /\ runs' = [runs EXCEPT ![r].pc = "download"]
    /\ UseCaseFrame

\* process_stt_job lines 93-96 and 195-208: the download raises
\* TransientError, the except branch calls increment_retry_count.
process_stt_job_transient(r) ==
    /\ runs[r].kind = "processor" /\ runs[r].pc = "download"
    /\ \/ store' = increment_retry_count(store, SharedJob)
       \/ UNCHANGED store
    /\ runs' = [runs EXCEPT ![r].pc = "done"]
    /\ UseCaseFrame

InitUseCase ==
    /\ settings = [use_parallel_transcription |-> TRUE]
    /\ store = [j \in JobIds |-> IF j = SharedJob THEN JobModel ELSE NoJob]
    /\ blobs = {}
    /\ audio = [j \in JobIds |-> [n |-> 0, ok |-> {}]]
    /\ msgs = {}
    /\ seenFailed = {}
    /\ InitRun
    /\ InitSide

NextUseCase ==
    \/ \E kind \in {"use_case", "processor"} : StartRun(kind)
    \/ \E r \in 1..Len(runs) : execute_get_job(r)
    \/ \E r \in 1..Len(runs) : execute_set_processing(r)
    \/ \E r \in 1..Len(runs) : execute_pipeline(r)
    \/ \E r \in 1..Len(runs) : execute_complete(r)
    \/ \E r \in 1..Len(runs) : execute_except(r)
    \/ \E r \in 1..Len(runs) : process_stt_job_start(r)
    \/ \E r \in 1..Len(runs) : process_stt_job_transient(r)

SpecUseCase == InitUseCase /\ [][NextUseCase]_vars

----------------------------------------------------------------------------
(* Submitters: services/task_service.py over repositories/task_repository.py, *)
(* speech2text/services/task_use_case.py over                                 *)
(* speech2text/adapters/mongo/task_repository.py                              *)

MaxSubmits == 2
MaxUploadMb == 500
NormalPriority == 5
NoPriority == -1

\* Job ids as the submitter sees them: the string of a Mongo ObjectId, or None.
NoObjectId == <<>>
ObjectId(i) == <<i>>

FileSizes == {1, MaxUploadMb, MaxUploadMb + 1}
Languages == {None, "en"}

SubmitFrame ==
    /\ UNCHANGED <<settings, store, audio, msgs, seenFailed>> /\ UNCHANGED RunVars
    /\ UNCHANGED <<chunkerIn, chunkerOut, runs, ServiceVars>>

\* JobModel.to_dict: the document, without id and without job_id.  The _id
\* Mongo assigns is the position of the document in the collection.
to_dict(language, size) ==
    [status |-> PENDING, language |-> language, file_size_mb |-> size]

\* TaskRepository.create_job: JobModel(job_id=uuid, ...) has no job_id field
\* and its id stays None; the document is inserted and the model returned.
TaskRepository_create_job(coll, language, size) ==
    [coll |-> Append(coll, to_dict(language, size)), id |-> NoObjectId]

\* MongoTaskRepository.create_job: insert, then job.id = str(inserted_id).
MongoTaskRepository_create_job(coll, language, size) ==
    [coll |-> Append(coll, to_dict(language, size)), id |-> ObjectId(Len(coll) + 1)]

\* TaskRepository.get_job: find_one({"job_id": job_id}).
TaskRepository_get_job(coll, id) ==
    {i \in 1..Len(coll) : "job_id" \in DOMAIN coll[i] /\ coll[i].job_id = id}

\* MongoTaskRepository.get_job: find_one({"_id": ObjectId(job_id)}).
MongoTaskRepository_get_job(coll, id) ==
    {i \in 1..Len(coll) : ObjectId(i) = id}

Message(via, id, language, priority) ==
    [via |-> via, job_id |-> id, language |-> language, priority |-> priority]

Call(op, size, language) ==
    [op |-> op, size |-> size, language |-> language,
     uploaded |-> FALSE, inserted |-> 0, published |-> 0]

\* The tail shared by the four submit operations: upload (when the operation
\* uploads), create_job, publish.  fault names the call that raises.
Submit(op, via, uploads, size, language, priority, fault) ==
    LET lang == IF language = None THEN "vi" ELSE language
        up == uploads /\ fault # "upload"
        ins == fault \notin {"upload", "insert"}
        pub == ins /\ fault # "publish"
        created == IF via = "TaskService"
                   THEN TaskRepository_create_job(collection, lang, size)
                   ELSE MongoTaskRepository_create_job(collection, lang, size)
    IN /\ Len(submits) < MaxSubmits
       /\ fault = "upload" => uploads
       /\ blobs' = IF up THEN upload_file(blobs, <<"uploads/", Len(submits) + 1>>, size)
                   ELSE blobs
       /\ collection' = IF ins THEN created.coll ELSE collection
       /\ queue' = IF pub THEN Append(queue, Message(via, created.id, lang, priority))
                   ELSE queue
       /\ submits' = Append(submits,
                        [Call(op, size, language) EXCEPT
                            !.uploaded = up,
                            !.inserted = IF ins THEN Len(collection') ELSE 0,
                            !.published = IF pub THEN Len(queue') ELSE 0])
       /\ SubmitFrame

Faults == {"none", "upload", "insert", "publish"}

\* TaskService.create_stt_task_from_file_id: the file record is read, the
\* language defaults to "vi", the job is created and published with priority 5.
create_stt_task_from_file_id(size, language, fault) ==
    Submit("create_stt_task_from_file_id", "TaskService", FALSE, size, language,
           NormalPriority, fault)

\* TaskService.create_stt_task: a file above 500 MB raises ValueError before
\* anything is written; else upload, create, publish with priority 5.
TaskService_create_stt_task(size, language, fault) ==
    IF size > MaxUploadMb
    THEN /\ Len(submits) < MaxSubmits /\ fault = "none"
         /\ submits' = Append(submits, Call("create_stt_task", size, language))
         /\ UNCHANGED <<blobs, collection, queue>>
         /\ SubmitFrame
    ELSE Submit("create_stt_task", "TaskService", TRUE, size, language,
                NormalPriority, fault)

\* TaskUseCase.create_job_from_existing_file: create the job, publish through
\* the messaging port, which passes no priority.
create_job_from_existing_file(size, language, fault) ==
    Submit("create_job_from_existing_file", "TaskUseCase", FALSE, size, language,
           NoPriority, fault)

\* TaskUseCase.create_stt_task: upload, then create_job_from_existing_file.
TaskUseCase_create_stt_task(size, language, fault) ==
    Submit("create_stt_task", "TaskUseCase", TRUE, size, language,
           NoPriority, fault)

InitSubmit ==
    /\ IdlePipeline
    /\ InitSide

NextSubmit ==
    \/ \E size \in FileSizes, language \in Languages, fault \in Faults :
          create_stt_task_from_file_id(size, language, fault)
    \/ \E size \in FileSizes, language \in Languages, fault \in Faults :
          TaskService_create_stt_task(size, language, fault)
    \/ \E size \in FileSizes, language \in Languages, fault \in Faults :
          create_job_from_existing_file(size, language, fault)
    \/ \E size \in FileSizes, language \in Languages, fault \in Faults :
          TaskUseCase_create_stt_task(size, language, fault)

SpecSubmit == InitSubmit /\ [][NextSubmit]_vars

----------------------------------------------------------------------------
(* TranscribeService: speech2text/services/transcription.py *)

MaxSizeBytes == 3
MaxBody == 3
MaxChunkBytes == 2

\* response.headers.get("content-length"): the header's text, or None.
NoHeader == <<>>
Header(n) == <<n>>
\* int(content_length)
int(h) == h[1]

ServiceFrame ==
    /\ UNCHANGED PipelineVars
    /\ UNCHANGED <<chunkerIn, chunkerOut, collection, queue, submits, runs>>
    /\ UNCHANGED <<retry, pool, merger, overlap, AuxVars>>

\* The call ends by raising e: control goes to the finally block.
RequestRaises(e) == request' = [request EXCEPT !.raised = e, !.pc = "finally"]

\* _download_file lines 161-179: open the stream, check the status and the
\* declared content-length, open the destination for writing.
download_file_open_undeclared ==
    /\ request.pc = "download"
    /\ \/ RequestRaises("ConnectError")
       \/ IF request.status_code # 200
          THEN RequestRaises("Failed to download file")
          ELSE \/ RequestRaises("OSError")
               \/ request' = [request EXCEPT !.file = TRUE, !.pc = "stream"]
    /\ ServiceFrame
download_file_open ==
    /\ request.pc = "download"
    /\ \/ RequestRaises("ConnectError")
       \/ IF request.status_code # 200
          THEN RequestRaises("Failed to download file")
          ELSE IF request.content_length # NoHeader
                  /\ int(request.content_length) > MaxSizeBytes
          THEN RequestRaises("File too large")
          ELSE \/ RequestRaises("OSError")
               \/ request' = [request EXCEPT !.file = TRUE, !.pc = "stream"]
    /\ ServiceFrame

\* _download_file lines 180-188: one iteration of aiter_bytes, write the
\* chunk, add its length, check the running size; the end of the body returns.
download_file_stream ==
    /\ request.pc = "stream"
    /\ IF request.sent < Len(request.body)
       THEN \/ RequestRaises("ReadError")
            \/ LET size_bytes == request.size_bytes + request.body[request.sent + 1] IN
               IF size_bytes > MaxSizeBytes
               THEN request' = [request EXCEPT !.sent = @ + 1, !.size_bytes = size_bytes,
                                               !.raised = "File too large",
                                               !.pc = "finally"]
               ELSE request' = [request EXCEPT !.sent = @ + 1, !.size_bytes = size_bytes]
       ELSE request' = [request EXCEPT !.pc = "transcribe"]
    /\ ServiceFrame

\* transcribe_from_url lines 76-145: the duration is read best effort, then
\* the transcriber runs in the executor under wait_for.
transcribe_from_url_transcribe ==
    /\ request.pc = "transcribe"
    /\ \E result \in {"text", "TimeoutError", "Exception"} :
         request' = [request EXCEPT !.transcribe_calls = @ + 1,
                                    !.raised = IF result = "text" THEN None ELSE result,
                                    !.returned = (result = "text"),
                                    !.pc = "finally"]
    /\ ServiceFrame

\* transcribe_from_url lines 146-153: os.remove when the file exists; a
\* failing os.remove is logged.
transcribe_from_url_finally ==
    /\ request.pc = "finally"
    /\ \E removed \in BOOLEAN :
         request' = [request EXCEPT !.file = IF removed THEN FALSE ELSE @,
                                    !.pc = "done"]
    /\ ServiceFrame

\* One call of transcribe_from_url on a URL whose response is given by its
\* status, its content-length header (None: absent) and the lengths of the
\* chunks of its body.
InitTranscribe ==
    /\ IdlePipeline
    /\ chunkerIn = NoCall /\ chunkerOut = NoChunks
    /\ collection = <<>> /\ queue = <<>> /\ submits = <<>> /\ runs = <<>>
    /\ retry = NoRequest /\ pool = NoRequest
    /\ merger = NoRequest /\ overlap = NoRequest
    /\ InitAux
    /\ \E status_code \in {200, 404},
          content_length \in {NoHeader} \cup {Header(n) : n \in 0..(MaxSizeBytes + 2)},
          body \in SeqsUpTo(1..MaxChunkBytes, MaxBody) :
         request = [pc |-> "download", status_code |-> status_code,
                    content_length |-> content_length, body |-> body,
                    sent |-> 0, size_bytes |-> 0, file |-> FALSE,
                    transcribe_calls |-> 0, raised |-> None, returned |-> FALSE]

NextTranscribe ==
    \/ download_file_open
    \/ download_file_stream
    \/ transcribe_from_url_transcribe
    \/ transcribe_from_url_finally

SpecTranscribe == InitTranscribe /\ [][NextTranscribe]_vars

----------------------------------------------------------------------------
(* WhisperTranscriber.transcribe_with_retry: worker/transcriber.py *)

MaxRetries == 3

\* What one call of transcribe does: it returns a text, possibly empty, or
\* raises.
Returns == {<<"return", "">>, <<"return", "xin chao">>}
Raises == {<<"raise", "STTTimeoutError">>, <<"raise", "WhisperCrashError">>,
           <<"raise", "Exception">>}

\* `if result:` on the returned string.
Truthy_any(result) == TRUE
Truthy(result) == result # ""

RECURSIVE Pow2(_)
Pow2(n) == IF n = 0 THEN 1 ELSE 2 * Pow2(n - 1)

RetryFrame ==
    /\ UNCHANGED PipelineVars
    /\ UNCHANGED <<chunkerIn, chunkerOut, collection, queue, submits, runs>>
    /\ UNCHANGED <<request, pool, merger, overlap, AuxVars>>

\* Lines 290-327: one iteration of `for attempt in range(max_retries)`.
transcribe_with_retry_attempt ==
    /\ retry.pc = "loop" /\ retry.attempt < retry.max_retries
    /\ \E o \in Returns \cup Raises :
         LET last == ~(retry.attempt < retry.max_retries - 1)
             called == [retry EXCEPT !.calls = Append(@, o)]
             again == [called EXCEPT !.attempt = @ + 1,
                                     !.sleeps = IF last THEN @
                                                ELSE Append(@, Pow2(retry.attempt))]
         IN retry' =
              CASE o[1] = "return" /\ Truthy(o[2]) ->
                     [called EXCEPT !.pc = "done", !.result = o]
                [] o[1] = "return" -> again
                [] o[2] \in {"STTTimeoutError", "WhisperCrashError"} ->
                     IF last THEN [called EXCEPT !.pc = "done", !.result = o]
                     ELSE [again EXCEPT !.last_exception = o[2]]
                [] OTHER -> [called EXCEPT !.pc = "done", !.result = o]
    /\ RetryFrame

\* Lines 329-337: the loop ran out: raise last_exception, or a new Exception.
transcribe_with_retry_exhausted ==
    /\ retry.pc = "loop" /\ ~(retry.attempt < retry.max_retries)
    /\ retry' = [retry EXCEPT !.pc = "done",
                              !.result = IF retry.last_exception # None
                                         THEN <<"raise", retry.last_exception>>
                                         ELSE <<"raise", "Exception">>]
    /\ RetryFrame

InitRetry ==
    /\ IdlePipeline
    /\ chunkerIn = NoCall /\ chunkerOut = NoChunks
    /\ collection = <<>> /\ queue = <<>> /\ submits = <<>> /\ runs = <<>>
    /\ request = NoRequest /\ pool = NoRequest
    /\ merger = NoRequest /\ overlap = NoRequest
    /\ InitAux
    /\ \E max_retries \in 0..MaxRetries :
         retry = [pc |-> "loop", max_retries |-> max_retries, attempt |-> 0,
                  calls |-> <<>>, sleeps |-> <<>>, last_exception |-> None,
                  result |-> <<"none", "">>]

NextRetry ==
    \/ transcribe_with_retry_attempt
    \/ transcribe_with_retry_exhausted

\* The loop is straight-line code of one thread: it keeps running.
SpecRetry == InitRetry /\ [][NextRetry]_vars /\ WF_vars(NextRetry)

----------------------------------------------------------------------------
(* The worker pool of the transcribe phase: ThreadPoolExecutor in             *)
(* _transcribe_chunks_parallel (speech2text/worker/processor.py); the         *)
(* semaphore of ProcessJobUseCase._transcribe_chunks behaves alike, a task    *)
(* per chunk created at once and at most max_parallel_workers inside it.      *)

MaxWorkers == 2
MaxPoolChunks == 4

PoolFrame ==
    /\ UNCHANGED PipelineVars
    /\ UNCHANGED <<chunkerIn, chunkerOut, collection, queue, submits, runs>>
    /\ UNCHANGED <<request, retry, merger, overlap, AuxVars>>

\* Lines 441-446: executor.submit for the next chunk of enumerate(chunks).
\* submit puts the work item on the executor's queue and returns the future.
executor_submit ==
    /\ pool # NoRequest /\ pool.submitted < pool.total_chunks
    /\ pool' = [pool EXCEPT !.submitted = @ + 1]
    /\ PoolFrame

\* A worker thread of the executor, of which there are at most max_workers,
\* takes a queued work item and runs _transcribe_single_chunk.
transcribe_single_chunk_start(i) ==
    /\ pool # NoRequest
    /\ i < pool.submitted /\ i \notin pool.running /\ i \notin pool.finished
    /\ Cardinality(pool.running) < pool.max_workers
    /\ pool' = [pool EXCEPT !.running = @ \cup {i}]
    /\ PoolFrame

\* _transcribe_single_chunk returns: the future is done, the thread is free.
transcribe_single_chunk_return(i) ==
    /\ pool # NoRequest
    /\ i \in pool.running
    /\ pool' = [pool EXCEPT !.running = @ \ {i}, !.finished = @ \cup {i}]
    /\ PoolFrame

\* The parallel path is taken for more than one chunk.
InitPool ==
    /\ IdlePipeline
    /\ chunkerIn = NoCall /\ chunkerOut = NoChunks
    /\ collection = <<>> /\ queue = <<>> /\ submits = <<>> /\ runs = <<>>
    /\ request = NoRequest /\ retry = NoRequest
    /\ merger = NoRequest /\ overlap = NoRequest
    /\ InitAux
    /\ \E max_workers \in 1..MaxWorkers, total_chunks \in 2..MaxPoolChunks :
         pool = [max_workers |-> max_workers, total_chunks |-> total_chunks,
                 submitted |-> 0, running |-> {}, finished |-> {}]

NextPool ==
    \/ executor_submit
    \/ \E i \in 0..(MaxPoolChunks - 1) : transcribe_single_chunk_start(i)
    \/ \E i \in 0..(MaxPoolChunks - 1) : transcribe_single_chunk_return(i)

SpecPool == InitPool /\ [][NextPool]_vars

----------------------------------------------------------------------------
(* Completion order and merge: the as_completed loop of                       *)
(* _transcribe_chunks_parallel followed by ResultMerger.merge_chunks          *)
(* (worker/merger.py), and steps 4-5 of ProcessJobUseCase.execute.            *)
(* The text of the chunk at position p of the chunk list is the token p.      *)

MaxMergeChunks == 4

MergerFrame ==
    /\ UNCHANGED PipelineVars
    /\ UNCHANGED <<chunkerIn, chunkerOut, collection, queue, submits, runs>>
    /\ UNCHANGED <<request, retry, pool, overlap, AuxVars>>

\* The chunk_index list chunk_audio returns for an input.
ChunkList(in) ==
    IF in.strategy = "silence_based" THEN chunk_by_silence(in)
    ELSE chunk_fixed_duration(in.segments)

\* sorted(chunks, key=chunk_index) on a list of positions of the chunk list:
\* Python's sort is stable, entries of equal chunk_index keep their order.
RECURSIVE sorted_by_chunk_index(_, _)
sorted_by_chunk_index(index, ps) ==
    IF ps = <<>> THEN <<>>
    ELSE LET rest == sorted_by_chunk_index(index, Tail(ps))
             x == Head(ps)
             k == Cardinality({i \in 1..Len(rest) : index[rest[i]] < index[x]})
         IN SubSeq(rest, 1, k) \o <<x>> \o SubSeq(rest, k + 1, Len(rest))

\* processor.py lines 449-459 (process_job.py lines 192-205): the next future
\* completes; a COMPLETED chunk is appended to transcribed_chunks.
as_completed_next(p) ==
    /\ merger # NoRequest /\ merger.out = NoText
    /\ p \in 1..Len(merger.chunks) /\ p \notin merger.done
    /\ merger' = [merger EXCEPT !.done = @ \cup {p},
                                !.transcribed = IF p \in merger.ok THEN Append(@, p)
                                                ELSE @]
    /\ MergerFrame

\* _merge_results: merge_chunks(transcribed_chunks), which sorts by
\* chunk_index.  ProcessJobUseCase.execute lines 111-124: the COMPLETED chunks
\* of job.chunks in list order, as dicts without chunk_index, so that the sort
\* key is 0 for all of them.
merger_merge_chunks ==
    /\ merger # NoRequest /\ merger.out = NoText
    /\ merger.done = 1..Len(merger.chunks)
    /\ merger' = [merger EXCEPT !.out =
                    IF merger.kind = "process_stt_job"
                    THEN sorted_by_chunk_index(merger.chunks, merger.transcribed)
                    ELSE sorted_by_chunk_index([p \in 1..Len(merger.chunks) |-> 0],
                                               SortedSeq(merger.ok))]
    /\ MergerFrame

\* A job whose chunk list is what the chunker returns for its audio, of more
\* than one chunk; ok: the chunks the transcriber can transcribe.
InitMerger ==
    /\ IdlePipeline
    /\ chunkerIn = NoCall /\ chunkerOut = NoChunks
    /\ collection = <<>> /\ queue = <<>> /\ submits = <<>> /\ runs = <<>>
    /\ request = NoRequest /\ retry = NoRequest /\ pool = NoRequest
    /\ overlap = NoRequest
    /\ InitAux
    /\ \E in \in [strategy : {"silence_based", "fixed_duration"},
                  detect : {"ok"},
                  ranges : SeqsUpTo(0..MaxSplit, MaxRanges),
                  segments : SeqsUpTo({TRUE}, MaxRanges)],
          kind \in {"process_stt_job", "ProcessJobUseCase"} :
         /\ Len(ChunkList(in)) \in 2..MaxMergeChunks
         /\ \E ok \in SUBSET (1..Len(ChunkList(in))) :
              merger = [kind |-> kind, chunks |-> ChunkList(in), ok |-> ok,
                        done |-> {}, transcribed |-> <<>>, out |-> NoText]

NextMerger ==
    \/ \E p \in 1..MaxMergeChunks : as_completed_next(p)
    \/ merger_merge_chunks

SpecMerger == InitMerger /\ [][NextMerger]_vars

----------------------------------------------------------------------------
(* ResultMerger._merge_with_overlap_removal and _find_overlap:                *)
(* worker/merger.py.  A text is a sequence of characters.                     *)

MaxTexts == 3
MinOverlap == 10
MaxOverlapSearch == 100

OverlapFrame ==
    /\ UNCHANGED PipelineVars
    /\ UNCHANGED <<chunkerIn, chunkerOut, collection, queue, submits, runs>>
    /\ UNCHANGED <<request, retry, pool, merger, AuxVars>>

Rep(c, n) == [i \in 1..n |-> c]

\* str.lower
lower(text) == [i \in 1..Len(text) |-> IF text[i] = "A" THEN "a" ELSE text[i]]

Min2(a, b) == IF a <= b THEN a ELSE b

\* text[-n:] and text[:n] for 0 < n <= len(text)
Last(text, n) == SubSeq(text, Len(text) - n + 1, Len(text))
First(text, n) == SubSeq(text, 1, n)

\* _find_overlap lines 176-183: for overlap_len in range(max_overlap,
\* min_overlap - 1, -1), the first length that matches, else 0.
RECURSIVE find_overlap_from(_, _, _)
find_overlap_from(text1, text2, overlap_len) ==
    IF overlap_len < MinOverlap THEN 0
    ELSE IF lower(Last(text1, overlap_len)) = lower(First(text2, overlap_len))
         THEN overlap_len
         ELSE find_overlap_from(text1, text2, overlap_len - 1)

\* _find_overlap: max_overlap = min(len(text1), len(text2), 100).
find_overlap(text1, text2) ==
    find_overlap_from(text1, text2,
                      Min2(Min2(Len(text1), Len(text2)), MaxOverlapSearch))

\* _merge_with_overlap_removal lines 133-148: one iteration of the loop.  The
\* overlap is searched between the text merged so far and the current text.
merge_with_overlap_removal_join ==
    /\ overlap # NoRequest /\ overlap.i <= Len(overlap.transcriptions)
    /\ LET merged == overlap.merged
           overlap_len == find_overlap(merged, overlap.transcriptions[overlap.i])
           current == SubSeq(overlap.transcriptions[overlap.i], overlap_len + 1,
                             Len(overlap.transcriptions[overlap.i]))
           space == IF merged # <<>> /\ current # <<>>
                       /\ merged[Len(merged)] # " " /\ current[1] # " "
                    THEN <<" ">> ELSE <<>>
       IN overlap' = [overlap EXCEPT !.i = @ + 1,
                                     !.merged = merged \o space \o current,
                                     !.removed = Append(@, overlap_len),
                                     !.appended = Append(@, current)]
    /\ OverlapFrame

\* The cleaned, non-empty chunk texts handed to _merge_with_overlap_removal:
\* runs of one letter whose length is around min_overlap and around the
\* search limit, alone or followed by another word, and a one-letter text.
Lens == {MinOverlap - 2, MinOverlap - 1, MinOverlap, MaxOverlapSearch,
         MaxOverlapSearch + 1}
Tails == {<<>>, <<" ", "b">>}
Texts == {Rep("a", n) \o t : n \in Lens, t \in Tails}
         \cup {Rep("A", MinOverlap) \o t : t \in Tails}
         \cup {<<"b">>}

InitOverlap ==
    /\ IdlePipeline
    /\ chunkerIn = NoCall /\ chunkerOut = NoChunks
    /\ collection = <<>> /\ queue = <<>> /\ submits = <<>> /\ runs = <<>>
    /\ request = NoRequest /\ retry = NoRequest /\ pool = NoRequest
    /\ merger = NoRequest
    /\ InitAux
    /\ \E n \in 1..MaxTexts : \E transcriptions \in [1..n -> Texts] :
         overlap = [transcriptions |-> transcriptions, i |-> 2,
                    merged |-> transcriptions[1], removed |-> <<>>,
                    appended |-> <<>>]

NextOverlap == merge_with_overlap_removal_join

SpecOverlap == InitOverlap /\ [][NextOverlap]_vars

----------------------------------------------------------------------------
(* AudioChunker._chunk_fixed_duration with its arithmetic:                    *)
(* speech2text/pipelines/stt/chunking.py.  Times are in milliseconds.         *)

MaxAudioMs == 6
MaxWindowMs == 3

\* No chunk list returned yet.
NoWindows == <<[chunk_index |-> -1, start_ms |-> -1, end_ms |-> -1]>>

\* range(0, audio_length_ms, chunk_duration_ms), as a list.
RECURSIVE range_from(_, _, _)
range_from(start, stop, step) ==
    IF start >= stop THEN <<>>
    ELSE <<start>> \o range_from(start + step, stop, step)

\* Lines 567-595: the loop over enumerate(range(...)); position i of the range
\* (from 1) is the enumerate index i - 1.  A window whose export raises is
\* logged and left out.
RECURSIVE fixed_windows_from(_, _, _, _, _)
fixed_windows_from(starts, i, audio_length_ms, chunk_duration_ms, exported) ==
    IF i > Len(starts) THEN <<>>
    ELSE (IF exported[i]
          THEN <<[chunk_index |-> i - 1,
                  start_ms |-> starts[i],
                  end_ms |-> Min2(starts[i] + chunk_duration_ms, audio_length_ms)]>>
          ELSE <<>>)
         \o fixed_windows_from(starts, i + 1, audio_length_ms, chunk_duration_ms,
                               exported)

chunk_fixed_duration_ms(in) ==
    fixed_windows_from(range_from(0, in.audio_length_ms, in.chunk_duration_ms), 1,
                       in.audio_length_ms, in.chunk_duration_ms, in.exported)

\* chunk_audio with strategy fixed_duration.
AudioChunker_chunk_fixed_duration ==
    /\ chunkerIn # NoCall /\ chunkerOut = NoWindows
    /\ chunkerOut' = chunk_fixed_duration_ms(chunkerIn)
    /\ UNCHANGED <<chunkerIn, collection, queue, submits, runs, ServiceVars>>
    /\ UNCHANGED PipelineVars

\* One call on an audio of audio_length_ms with window chunk_duration_ms;
\* exported[i]: whether the export of window i succeeds.
InitFixed ==
    /\ IdlePipeline
    /\ collection = <<>> /\ queue = <<>> /\ submits = <<>> /\ runs = <<>>
    /\ InitServices
    /\ chunkerOut = NoWindows
    /\ \E audio_length_ms \in 0..MaxAudioMs, chunk_duration_ms \in 1..MaxWindowMs :
         \E exported \in [1..Len(range_from(0, audio_length_ms, chunk_duration_ms))
                            -> BOOLEAN] :
            chunkerIn = [strategy |-> "fixed_duration",
                         audio_length_ms |-> audio_length_ms,
                         chunk_duration_ms |-> chunk_duration_ms,
                         exported |-> exported]

NextFixed == AudioChunker_chunk_fixed_duration

SpecFixed == InitFixed /\ [][NextFixed]_vars

----------------------------------------------------------------------------
(* ModelDownloader: worker/model_downloader.py *)

MaxCalls == 3
TinySizeMb == 75
NoFile == -1

\* MODEL_CONFIGS, and a name outside it.
ModelNames == {"tiny", "huge"}
MODEL_CONFIGS == [tiny |-> [size_mb |-> TinySizeMb]]

\* Sizes in MB of the object in the bucket and of the local file: empty,
\* just below and just above 90% of the configured size, and the full size.
ObjectSizes == {0, 67, 68, TinySizeMb}

DownloaderFrame ==
    /\ UNCHANGED PipelineVars
    /\ UNCHANGED <<chunkerIn, chunkerOut, collection, queue, submits, runs>>
    /\ UNCHANGED <<request, retry, pool, merger, overlap, consumer>>

\* file_size_mb < size_mb * 0.9
too_small(size, model) == size * 10 < MODEL_CONFIGS[model].size_mb * 9

\* _is_model_valid: the file exists and has at least 90% of the configured
\* size (no md5 is configured); an exception while checking counts as invalid.
is_model_valid(model, file) == file # NoFile /\ ~too_small(file, model)

\* Outcome of a call.
Returned(d, model) == [d EXCEPT !.pc = "idle", !.model = model, !.returned = "path"]
Raised(d, model, e) == [d EXCEPT !.pc = "idle", !.model = model, !.returned = e]

\* ensure_model_exists, lines 79-104: the in-memory cache, the name check and
\* the check of the local file.
ensure_model_exists(model) ==
    /\ downloader.pc = "idle" /\ downloader.calls < MaxCalls
    /\ LET d == [downloader EXCEPT !.calls = @ + 1, !.downloaded = FALSE,
                                   !.cleanup = "none"]
       IN downloader' =
            IF model \in d.validated_models THEN Returned(d, model)
            ELSE IF model \notin DOMAIN MODEL_CONFIGS THEN Raised(d, model, "ValueError")
            ELSE IF is_model_valid(model, d.file)
                 THEN Returned([d EXCEPT !.validated_models = @ \cup {model}], model)
                 ELSE [d EXCEPT !.pc = "download", !.model = model]
    /\ DownloaderFrame

\* _download_model, lines 210-223: the except branch removes what is at the
\* model path; a failing unlink is logged, and the error is raised again.
download_model_except(d, e) ==
    IF d.file = NoFile THEN {Raised([d EXCEPT !.cleanup = "nothing"], d.model, e)}
    ELSE {Raised([d EXCEPT !.file = NoFile, !.cleanup = "removed"], d.model, e),
          Raised([d EXCEPT !.cleanup = "failed"], d.model, e)}

\* _download_model, lines 175-208, and the rest of ensure_model_exists:
\*   mkdir or get_minio_client raises;
\*   the object is not in the bucket: FileNotFoundError;
\*   download_file raises, leaving the path as it was or a partial file;
\*   the downloaded file is too small: unlink, ValueError;
\*   otherwise the cache file is updated (best effort), the model is added to
\*   _validated_models and the path is returned.
download_model ==
    /\ downloader.pc = "download"
    /\ LET d == downloader
           got == [d EXCEPT !.file = d.object, !.downloads = @ + 1, !.downloaded = TRUE]
       IN \/ downloader' \in download_model_except(d, "Exception")
          \/ /\ d.object = NoFile
             /\ downloader' \in download_model_except(d, "FileNotFoundError")
          \/ /\ d.object # NoFile
             /\ \E partial \in {d.file} \cup {s \in ObjectSizes : s < d.object} :
                  downloader' \in download_model_except(
                      [d EXCEPT !.file = partial, !.downloads = @ + 1,
                                !.downloaded = TRUE], "S3Error")
          \/ /\ d.object # NoFile
             /\ IF too_small(d.object, d.model)
                THEN \/ downloader' \in download_model_except(
                            [got EXCEPT !.file = NoFile], "ValueError")
                     \/ downloader' \in download_model_except(got, "OSError")
                ELSE downloader' =
                         Returned([got EXCEPT !.validated_models = @ \cup {d.model}],
                                  d.model)
    /\ DownloaderFrame

\* A fresh ModelDownloader; the bucket holds the model object or not, the
\* models directory holds a file of some size at the model path or not.
InitDownloader ==
    /\ IdlePipeline
    /\ chunkerIn = NoCall /\ chunkerOut = NoChunks
    /\ collection = <<>> /\ queue = <<>> /\ submits = <<>> /\ runs = <<>>
    /\ request = NoRequest /\ retry = NoRequest /\ pool = NoRequest
    /\ merger = NoRequest /\ overlap = NoRequest /\ consumer = NoRequest
    /\ \E object \in ObjectSizes \cup {NoFile}, file \in ObjectSizes \cup {NoFile} :
         downloader = [pc |-> "idle", object |-> object, file |-> file,
                       validated_models |-> {}, model |-> "none", calls |-> 0,
                       downloads |-> 0, downloaded |-> FALSE, cleanup |-> "none",
                       returned |-> "none"]

NextDownloader ==
    \/ \E model \in ModelNames : ensure_model_exists(model)
    \/ download_model

SpecDownloader == InitDownloader /\ [][NextDownloader]_vars

----------------------------------------------------------------------------
(* ConsumerService: cmd/consumer/main.py *)

MaxInflight == 2
MaxDispatched == 3

Handlers == 1..MaxInflight

ConsumerFrame ==
    /\ UNCHANGED PipelineVars
    /\ UNCHANGED <<chunkerIn, chunkerOut, collection, queue, submits, runs>>
    /\ UNCHANGED <<request, retry, pool, merger, overlap, downloader>>

\* Queue.consume(handler, prefetch): while the connection is open the
\* broker hands a message to a free handler task, at most prefetch in flight.
consume_jobs_deliver(h) ==
    /\ consumer.pc # "exited" /\ consumer.queue_open
    /\ consumer.handlers[h] = "idle" /\ consumer.dispatched < MaxDispatched
    /\ consumer' = [consumer EXCEPT !.handlers[h] = "job_store",
                                    !.dispatched = @ + 1,
                                    !.dispatched_after_signal =
                                        @ \/ consumer.shutdown_event]
    /\ ConsumerFrame

\* The orchestration of handler task h performs its JobStore operations
\* (get_job, update_status, update_job) at an await of the event loop.
handler_job_store(h) ==
    /\ consumer.pc # "exited" /\ consumer.handlers[h] = "job_store"
    /\ consumer' = [consumer EXCEPT !.handlers[h] = "dispose",
                                    !.db_op_on_closed = @ \/ ~consumer.db_open]
    /\ ConsumerFrame

\* handle_stt_message of task h issues its disposition on the message and
\* returns.
handler_dispose(h) ==
    /\ consumer.pc # "exited" /\ consumer.handlers[h] = "dispose"
    /\ consumer' = [consumer EXCEPT !.handlers[h] = "idle",
                                    !.queue_op_on_closed = @ \/ ~consumer.queue_open]
    /\ ConsumerFrame

\* main, lines 248-254: the handler of SIGTERM / SIGINT sets shutdown_event.
handle_shutdown ==
    /\ consumer.pc \in {"consuming", "shutdown"}
    /\ ~consumer.shutdown_event
    /\ consumer' = [consumer EXCEPT !.shutdown_event = TRUE]
    /\ ConsumerFrame

\* start_consuming, lines 201-204: shutdown_event.wait() returns, and run
\* goes to its finally block.
start_consuming_return ==
    /\ consumer.pc = "consuming" /\ consumer.shutdown_event
    /\ consumer' = [consumer EXCEPT !.pc = "shutdown"]
    /\ ConsumerFrame

\* shutdown, lines 148-180, called from the finally of run: disconnect the
\* queue manager, then the database; an exception of either is logged.
ConsumerService_shutdown ==
    /\ consumer.pc = "shutdown"
    /\ \E queue_closed \in BOOLEAN, db_closed \in BOOLEAN :
         consumer' = [consumer EXCEPT
                          !.pc = "final_shutdown",
                          !.queue_open = @ /\ ~queue_closed,
                          !.db_open = @ /\ ~db_closed]
    /\ ConsumerFrame

\* main, lines 266-277: the finally block calls shutdown once more, then
\* main returns and asyncio.run cancels the tasks that are still pending.
main_finally ==
    /\ consumer.pc = "final_shutdown"
    /\ \E queue_closed \in BOOLEAN, db_closed \in BOOLEAN :
         consumer' = [consumer EXCEPT
                          !.pc = "exited",
                          !.queue_open = @ /\ ~queue_closed,
                          !.db_open = @ /\ ~db_closed]
    /\ ConsumerFrame

\* The service after startup: both connections open, consume_jobs called.
InitConsumer ==
    /\ IdlePipeline
    /\ chunkerIn = NoCall /\ chunkerOut = NoChunks
    /\ collection = <<>> /\ queue = <<>> /\ submits = <<>> /\ runs = <<>>
    /\ request = NoRequest /\ retry = NoRequest /\ pool = NoRequest
    /\ merger = NoRequest /\ overlap = NoRequest /\ downloader = NoRequest
    /\ consumer = [pc |-> "consuming", shutdown_event |-> FALSE,
                   queue_open |-> TRUE, db_open |-> TRUE,
                   handlers |-> [h \in Handlers |-> "idle"],
                   dispatched |-> 0, dispatched_after_signal |-> FALSE,
                   db_op_on_closed |-> FALSE, queue_op_on_closed |-> FALSE]

NextConsumer ==
    \/ \E h \in Handlers : consume_jobs_deliver(h)
    \/ \E h \in Handlers : handler_job_store(h)
    \/ \E h \in Handlers : handler_dispose(h)
    \/ handle_shutdown
    \/ start_consuming_return
    \/ ConsumerService_shutdown
    \/ main_finally

SpecConsumer == InitConsumer /\ [][NextConsumer]_vars

----------------------------------------------------------------------------
(* The consume loop without a bound on redeliveries *)

\* consume_jobs hands over a queued message however often it was delivered
\* before: neither the handler nor process_stt_job looks at a delivery count
\* or at retry_count.  The count kept for the message stops after
\* MaxDeliveries.
DeliverAgain(m) ==
    /\ pc = "idle" /\ m \in msgs /\ m.state = "queued" /\ m.deliveries >= MaxDeliveries
    /\ LET d == [m EXCEPT !.state = "inflight", !.deliveries = MaxDeliveries + 1] IN
       /\ msgs' = (msgs \ {m}) \cup {d}
       /\ cur' = d
    /\ pc' = "decode"
    /\ job_id' = NoId /\ err' = "none" /\ outcome' = "none" /\ disp' = <<>>
    /\ temp_dir' = FALSE /\ chunks' = 0 /\ done' = {} /\ transcribed_chunks' = <<>>
    /\ chunk_status' = <<>> /\ final_transcription' = NoText
    /\ progressWrites' = 0 /\ retryAtStart' = 0 /\ chunk_fault' = "none"
    /\ UNCHANGED <<settings, store, blobs, audio, seenFailed, SideVars>>

\* The broker hands a queued message to the consumer.
Consume == \E m \in msgs : Deliver(m) \/ DeliverAgain(m)

\* The worker takes its next step inside the handler.
WorkerStep ==
    \/ handle_stt_message_decode
    \/ get_job
    \/ set_processing
    \/ download_audio_from_minio
    \/ chunk_audio
    \/ persist_chunks
    \/ \E c \in 0..(MaxChunks - 1) : transcribe_chunks_parallel(c)
    \/ transcribe_chunks
    \/ transcribe_finish
    \/ merge_results
    \/ upload_results_to_minio
    \/ complete_job
    \/ except_branch
    \/ finally_cleanup
    \/ handle_stt_message_dispose

\* A step in which a transient or unexpected fault occurs: process_stt_job
\* raises a TransientError or an unexpected exception, a JobStore write of an
\* except branch raises and is swallowed, or a disposition call raises.
FaultStep ==
    \/ pc # "except" /\ pc' = "except" /\ err' \in {"transient", "unexpected"}
    \/ pc = "except" /\ pc' = "finally" /\ Exists(job_id) /\ store' = store
    \/ pc = "dispose" /\ pc' = "idle" /\ Len(disp') = 2

\* Faults stop from some point on: they occur only in the first MaxDeliveries
\* deliveries of a message.
WorkerStepLive == WorkerStep /\ (cur.deliveries > MaxDeliveries => ~FaultStep)

\* A job has been submitted: its PENDING document is stored and its message
\* is on the queue.
InitLive ==
    /\ settings \in [use_parallel_transcription : BOOLEAN]
    /\ \E j \in Submittable, n \in 0..MaxChunks : \E ok \in SUBSET (0..(n - 1)) :
         /\ store = [i \in JobIds |-> IF i = j THEN JobModel ELSE NoJob]
         /\ audio = [i \in JobIds |-> IF i = j THEN [n |-> n, ok |-> ok]
                                      ELSE [n |-> 0, ok |-> {}]]
         /\ msgs = {Msg("valid", j)}
    /\ blobs = {}
    /\ seenFailed = {}
    /\ InitRun
    /\ InitSide

NextLive ==
    \/ \E m \in msgs : Redeliver(m)
    \/ Consume
    \/ WorkerStepLive

\* The consumer keeps consuming and the handler runs to its end: the event
\* loop schedules the handler task until it returns, and the broker delivers
\* a queued message to the subscribed consumer.
SpecLive == InitLive /\ [][NextLive]_vars /\ WF_vars(Consume) /\ WF_vars(WorkerStepLive)

----------------------------------------------------------------------------
(* AudioChunker._chunk_by_silence with its arithmetic:                        *)
(* speech2text/pipelines/stt/chunking.py.  Times are in milliseconds; the     *)
(* audio length and the bounds of the non-silent ranges are whole seconds.    *)

MaxAudioSec == 12
MaxRegions == 2

intro_threshold == 5
outro_threshold == 5
min_chunk_duration == 2
max_chunk_duration == 60
chunk_duration == 30

\* Seconds to milliseconds: int(x * 1000).
Ms(sec) == sec * 1000

\* Lines 288-316, the body of the intro/outro loop for one range: a range
\* entirely inside the first or the last 5 seconds is skipped, a range reaching
\* into them is clipped and kept only when end_ms > start_ms afterwards.
filter_range(start_ms, end_ms, audio_length_ms) ==
    LET outro_start == audio_length_ms - Ms(outro_threshold)
    IN IF \/ start_ms < Ms(intro_threshold) /\ end_ms < Ms(intro_threshold)
          \/ start_ms > outro_start /\ end_ms > outro_start
       THEN <<>>
       ELSE LET s == IF start_ms < Ms(intro_threshold)
                     THEN Ms(intro_threshold) ELSE start_ms
                e == IF end_ms > outro_start THEN outro_start ELSE end_ms
            IN IF e > s THEN << <<s, e>> >> ELSE <<>>

RECURSIVE filter_ranges_from(_, _, _)
filter_ranges_from(ranges, i, audio_length_ms) ==
    IF i > Len(ranges) THEN <<>>
    ELSE filter_range(ranges[i][1], ranges[i][2], audio_length_ms)
         \o filter_ranges_from(ranges, i + 1, audio_length_ms)

\* Lines 283-320: filtered_ranges.
filtered_ranges(in) ==
    IF in.filter_intro_outro
    THEN filter_ranges_from(in.nonsilent_ranges, 1, in.audio_length_ms)
    ELSE in.nonsilent_ranges

\* _split_chunk: windows of max_chunk_duration over the range, with
\* chunk_index index_offset + i and times offset by the start of the range.
split_chunk_ms(start_ms, end_ms, index_offset) ==
    LET starts == range_from(0, end_ms - start_ms, Ms(max_chunk_duration))
    IN [i \in 1..Len(starts) |->
          [chunk_index |-> index_offset + (i - 1),
           start_ms |-> start_ms + starts[i],
           end_ms |-> start_ms + Min2(starts[i] + Ms(max_chunk_duration),
                                      end_ms - start_ms)]]

\* Lines 322-381, the loop over enumerate(filtered_ranges): a range shorter
\* than min_chunk_duration is skipped, one longer than max_chunk_duration is
\* split, any other becomes chunk i.  An export that raises is caught by the
\* loop's own except and the range is left out.
RECURSIVE silence_chunks_from(_, _, _)
silence_chunks_from(ranges, i, export_ok) ==
    IF i > Len(ranges) THEN <<>>
    ELSE LET start_ms == ranges[i][1]
             end_ms == ranges[i][2]
             duration_ms == end_ms - start_ms
         IN (IF duration_ms < Ms(min_chunk_duration) THEN <<>>
             ELSE IF ~export_ok THEN <<>>
             ELSE IF duration_ms > Ms(max_chunk_duration)
                  THEN split_chunk_ms(start_ms, end_ms, (i - 1) * SubChunkOffset)
             ELSE <<[chunk_index |-> i - 1, start_ms |-> start_ms,
                     end_ms |-> end_ms]>>)
            \o silence_chunks_from(ranges, i + 1, export_ok)

\* The fixed-duration fallback: _chunk_fixed_duration(audio, output_dir,
\* settings.chunk_duration).
fixed_duration_fallback(in) ==
    chunk_fixed_duration_ms(
        [audio_length_ms |-> in.audio_length_ms,
         chunk_duration_ms |-> Ms(chunk_duration),
         exported |-> [i \in 1..Len(range_from(0, in.audio_length_ms,
                                               Ms(chunk_duration)))
                          |-> in.export_ok]])

\* _chunk_by_silence: a failing detection (the outer except) and an empty
\* nonsilent_ranges fall back to fixed duration; otherwise the chunks of the
\* loop are returned as they are.
chunk_by_silence_ms(in) ==
    IF in.detect = "error" \/ in.nonsilent_ranges = <<>>
    THEN fixed_duration_fallback(in)
    ELSE silence_chunks_from(filtered_ranges(in), 1, in.export_ok)

\* chunk_audio with strategy silence_based.
AudioChunker_chunk_by_silence ==
    /\ chunkerIn # NoCall /\ chunkerOut = NoWindows
    /\ chunkerOut' = chunk_by_silence_ms(chunkerIn)
    /\ UNCHANGED <<chunkerIn, collection, queue, submits, runs, ServiceVars>>
    /\ UNCHANGED PipelineVars

\* detect_nonsilent: at most MaxRegions ranges [start_ms, end_ms], in time
\* order, non-empty and apart from each other, inside the audio; here in
\* seconds, given by their 2k distinct bounds.
NonsilentRanges(audio_sec) ==
    {LET bounds == SortedSeq(P)
     IN [i \in 1..(Cardinality(P) \div 2) |-> <<bounds[2 * i - 1], bounds[2 * i]>>] :
        P \in {Q \in SUBSET (0..audio_sec) :
                  Cardinality(Q) % 2 = 0 /\ Cardinality(Q) <= 2 * MaxRegions}}

\* One call on an audio of audio_sec seconds.
InitSilence ==
    /\ IdlePipeline
    /\ collection = <<>> /\ queue = <<>> /\ submits = <<>> /\ runs = <<>>
    /\ InitServices
    /\ chunkerOut = NoWindows
    /\ \E audio_sec \in 1..MaxAudioSec, detect \in {"ok", "error"},
          filter \in BOOLEAN, export_ok \in BOOLEAN :
         \E ranges \in NonsilentRanges(audio_sec) :
            chunkerIn = [strategy |-> "silence_based",
                         audio_length_ms |-> Ms(audio_sec),
                         detect |-> detect,
                         nonsilent_ranges |->
                            [i \in 1..Len(ranges) |->
                                <<Ms(ranges[i][1]), Ms(ranges[i][2])>>],
                         filter_intro_outro |-> filter,
                         export_ok |-> export_ok]

NextSilence == AudioChunker_chunk_by_silence

SpecSilence == InitSilence /\ [][NextSilence]_vars

----------------------------------------------------------------------------
(* Properties *)

Handled == pc = "idle" /\ disp # <<>>

\* C1 (as stated): for a message with a decodable job_id the disposition is
\* ack after a normal return, requeue after a TransientError, reject without
\* requeue after a PermanentError, and no other pairing occurs.
C1_OutcomeDisposition ==
    (Handled /\ job_id # NoId) =>
        \/ outcome = "ok" /\ disp[1] = "ack"
        \/ outcome = "transient" /\ disp[1] = "requeue"
        \/ outcome = "permanent" /\ disp[1] = "reject"

\* C1 (amended): the first disposition call is ack after a normal return,
\* requeue after a TransientError, reject without requeue after a
\* PermanentError, and requeue after any other exception of process_stt_job.
C1_OutcomeDispositionAmended ==
    (Handled /\ job_id # NoId) =>
        \/ outcome = "ok" /\ disp[1] = "ack"
        \/ outcome = "transient" /\ disp[1] = "requeue"
        \/ outcome = "permanent" /\ disp[1] = "reject"
        \/ outcome = "unexpected" /\ disp[1] = "requeue"

C1_Witness ==
    Handled /\ job_id # NoId /\ Exists(job_id)
    /\ outcome = "permanent" /\ disp = <<"reject">>

\* C2: a job whose stored status has been FAILED is never COMPLETED later.
C2_FailedNeverCompleted ==
    \A j \in JobIds : j \in seenFailed => store[j].status # COMPLETED

Rank(st) == CASE st = PENDING -> 0 [] st = PROCESSING -> 1 [] OTHER -> 2

\* C3: the stored status of a job only moves forward in PENDING < PROCESSING <
\* {COMPLETED, FAILED}, except PROCESSING -> PENDING together with a strict
\* increase of retry_count.
C3_MonotonicStatus ==
    [][\A j \in JobIds :
         (Exists(j) /\ store'[j].status # store[j].status) =>
            \/ Rank(store'[j].status) > Rank(store[j].status)
            \/ /\ store[j].status = PROCESSING /\ store'[j].status = PENDING
               /\ store'[j].retry_count > store[j].retry_count]_vars

\* What a deterministic chunker and transcriber yield for the audio of job j.
ExpectedText(j) == SortedSeq(audio[j].ok)
BlobsOf(j) == {o \in blobs : o.path[2] = j}

\* C4: every acknowledged delivery of a job's message, the first and any later
\* one, leaves the same record (COMPLETED, the text and result path that the
\* audio determines) and one blob at results/result_<job_id>.txt holding it.
C4_RedeliveryIdempotent ==
    (Handled /\ disp = <<"ack">>) =>
        /\ store[job_id].status = COMPLETED
        /\ store[job_id].transcription_text = ExpectedText(job_id)
        /\ store[job_id].minio_result_path = ResultPath(job_id)
        /\ BlobsOf(job_id) = {[path |-> ResultPath(job_id),
                               content |-> ExpectedText(job_id)]}

C4_Witness ==
    Handled /\ disp = <<"ack">> /\ cur.acks >= 1 /\ cur.deliveries >= 2
    /\ Len(store[job_id].transcription_text) >= 2

\* C5: a malformed message is rejected without requeue, never requeued, and
\* process_stt_job is not invoked for it.
C5_MalformedRejected ==
    cur.kind \in Malformed =>
        /\ pc \in {"idle", "decode"}
        /\ disp \in {<<>>, <<"reject">>}

\* C6: when a message is rejected because of a permanent error for an existing
\* job, the job is FAILED with error_message set at the moment of the reject.
C6_RejectedJobIsFailed ==
    (Handled /\ disp = <<"reject">> /\ outcome = "permanent"
        /\ job_id # NoId /\ Exists(job_id)) =>
        /\ store[job_id].status = FAILED
        /\ store[job_id].error_message # NoError

\* C7: a requeue after a failed run (transient, or unexpected treated as
\* transient) is preceded in the same delivery by retry_count + 1.
C7_RequeueAfterIncrement ==
    (Handled /\ disp = <<"requeue">> /\ outcome \in {"transient", "unexpected"}
        /\ job_id # NoId /\ Exists(job_id)) =>
        store[job_id].retry_count = retryAtStart + 1

\* C8: on a transient error the job stays PROCESSING and the error is
\* re-raised; the status FAILED is written only for permanent errors.
C8_TransientStaysProcessing ==
    /\ []((pc \in {"finally", "dispose"} /\ outcome = "transient") =>
            store[job_id].status = PROCESSING)
    /\ [][\A j \in JobIds :
            (Exists(j) /\ store[j].status # FAILED /\ store'[j].status = FAILED)
                => err = "permanent"]_vars

\* C9: at most 4 chunks_completed progress writes per transcribe phase.
C9_AtMostFourWrites == progressWrites <= 4

Crossed(p, k0, k1, total) == k0 * 100 < p * total /\ k1 * 100 >= p * total

Milestone(k0, k1, total) ==
    /\ k1 = k0 + 1
    /\ \/ k1 = 1
       \/ k1 = total
       \/ total >= 4 /\ (Crossed(50, k0, k1, total) \/ Crossed(75, k0, k1, total))

\* C10: in the parallel fan-out a completion is followed by a progress write
\* exactly when it is the first success, the last chunk, or (N >= 4) it moved
\* the success fraction across 50% or 75%.
C10_MilestoneWrites ==
    [][(pc = "transcribe" /\ Parallel /\ done' # done) =>
          ((progressWrites' = progressWrites + 1)
              <=> Milestone(Len(transcribed_chunks), Len(transcribed_chunks'), chunks))]_vars

\* C11: once process_stt_job has returned or raised, the temporary directory
\* of the run no longer exists.
C11_TempDirDeleted == pc = "dispose" => ~temp_dir

\* The chunks of the current run that the transcriber can transcribe.
OkChunks == {c \in 0..(chunks - 1) : Succeeds(c)}

\* C12: a failed chunk is marked FAILED and does not fail the job: the
\* transcribe phase raises only when no chunk succeeded, the merged text is the
\* merge of exactly the successful chunks (one chunk: its text), and a run that
\* returns normally leaves the job COMPLETED with that text.
C12_FailedChunkTolerated ==
    /\ (pc = "except" /\ err = "permanent" /\ chunks > 0) => OkChunks = {}
    /\ pc \in {"upload", "complete"} =>
          /\ final_transcription = SortedSeq(OkChunks)
          /\ \A c \in (0..(chunks - 1)) \ OkChunks : chunk_status[c + 1] = FAILED
    /\ (pc \in {"finally", "dispose"} /\ outcome = "ok") =>
          /\ store[job_id].status = COMPLETED
          /\ store[job_id].transcription_text = SortedSeq(OkChunks)

C12_Witness ==
    /\ pc = "dispose" /\ outcome = "ok" /\ chunks = 2
    /\ \E c \in 0..1 : OkChunks = {c} /\ store[job_id].transcription_text = <<c>>
    /\ \E i \in 1..2 : chunk_status[i] = FAILED

\* The run reached the end of the transcribe phase with no successful chunk:
\* every chunk failed, or the chunk list was empty.
ZeroAtMerge ==
    /\ Exists(job_id) /\ done = 0..(chunks - 1) /\ transcribed_chunks = <<>>
    /\ chunks > 0 \/ (cur.deliveries = 1 /\ store[job_id].chunks_total = 0)

\* C13: a run with no successful chunk at the merge phase fails permanently:
\* the stored status is FAILED, no result artifact is uploaded, and the job is
\* not COMPLETED.
C13_ZeroSuccessFails ==
    (pc = "dispose" /\ ZeroAtMerge) =>
        /\ outcome = "permanent"
        /\ store[job_id].status = FAILED
        /\ BlobsOf(job_id) = {}

\* C14: a COMPLETED job has result path results/result_<job_id>.txt, a blob at
\* that path, and blob content and transcription_text both equal to the merge of
\* the job's successful chunks in index order.
C14_CompletedHasArtifact ==
    \A j \in JobIds : (Exists(j) /\ store[j].status = COMPLETED) =>
        /\ store[j].minio_result_path = ResultPath(j)
        /\ store[j].transcription_text = merge_chunks(SortedSeq(audio[j].ok))
        /\ \E o \in blobs : /\ o.path = ResultPath(j)
                            /\ o.content = store[j].transcription_text

C14_Witness ==
    /\ pc = "finally" /\ outcome = "ok" /\ store[job_id].status = COMPLETED
    /\ Len(store[job_id].transcription_text) = 2
    /\ \E o \in blobs : o.path = ResultPath(job_id)

\* C15: error_message is set exactly when the stored status is FAILED.
C15_ErrorIffFailed ==
    \A j \in JobIds : Exists(j) =>
        (store[j].error_message # NoError <=> store[j].status = FAILED)

C17_ChunkIndicesContiguous ==
    chunkerOut # NoChunks =>
        \A k \in 1..Len(chunkerOut) : chunkerOut[k] = k - 1

\* C18: the stored retry_count of a job never decreases.
C18_RetryCountMonotonic ==
    [][\A j \in JobIds :
         (store[j] # NoJob /\ store'[j] # NoJob) =>
            store'[j].retry_count >= store[j].retry_count]_vars

\* C19: a submit call for a file larger than 500 MB writes nothing (no upload,
\* no job, no message); a job that is inserted is PENDING with the requested
\* language or "vi", and its message is published with priority 5.
C19_SubmitValidatesSize ==
    \A k \in 1..Len(submits) :
        LET c == submits[k] IN
        /\ c.size > MaxUploadMb =>
              ~c.uploaded /\ c.inserted = 0 /\ c.published = 0
        /\ c.inserted # 0 =>
              /\ collection[c.inserted].status = PENDING
              /\ collection[c.inserted].language =
                    (IF c.language = None THEN "vi" ELSE c.language)
        /\ (c.published # 0 /\ queue[c.published].priority # NoPriority) =>
              queue[c.published].priority = NormalPriority

\* C20: every message the submitter published carries the id under which its
\* job is stored: the repository of the consumer that serves that submitter
\* finds the job.
C20_PublishedJobIsStored ==
    \A k \in 1..Len(queue) :
        LET m == queue[k] IN
        /\ m.job_id # NoObjectId
        /\ IF m.via = "TaskService"
           THEN TaskRepository_get_job(collection, m.job_id) # {}
           ELSE MongoTaskRepository_get_job(collection, m.job_id) # {}

C22_TempFileRemoved == request.pc = "done" => ~request.file

Retryable == {<<"return", "">>, <<"raise", "STTTimeoutError">>,
              <<"raise", "WhisperCrashError">>}

\* What the claim says of a call of transcribe_with_retry, at any moment.
RetryContract ==
    /\ Len(retry.calls) <= retry.max_retries
    /\ \A i \in 1..(Len(retry.calls) - 1) : retry.calls[i] \in Retryable
    /\ retry.pc = "done" =>
          LET n == Len(retry.calls) IN
          /\ retry.sleeps = [i \in 1..(n - 1) |-> Pow2(i - 1)]
          /\ retry.result[1] \in {"return", "raise"}
          /\ retry.result[1] = "return" =>
                retry.result[2] # "" /\ retry.calls[n] = retry.result
          /\ retry.result[1] = "raise" =>
                \/ n = retry.max_retries
                \/ retry.calls[n] = <<"raise", "Exception">>
          /\ (n > 0 /\ retry.calls[n][1] = "raise") => retry.result = retry.calls[n]

\* C24: transcribe_with_retry ends after at most max_retries calls of
\* transcribe: it goes on (after sleeping 2^attempt) only after a timeout, a
\* crash or an empty result, returns the first non-empty result and never an
\* empty one, re-raises any other exception at once, and raises after the last
\* attempt when none succeeded.
C24_RetryTerminates ==
    /\ []RetryContract
    /\ <>(retry.pc = "done")

C24_Witness ==
    /\ retry.pc = "done" /\ retry.max_retries = MaxRetries
    /\ retry.calls = <<<<"raise", "STTTimeoutError">>, <<"return", "">>,
                       <<"return", "xin chao">>>>
    /\ retry.result = <<"return", "xin chao">> /\ retry.sleeps = <<1, 2>>

\* Chunk tasks handed to the pool that have not finished.
Outstanding == {i \in 0..(pool.submitted - 1) : i \notin pool.finished}

\* C25: at most max_parallel_workers chunk transcriptions run at a time, and
\* at most that many chunk tasks are submitted and unfinished.
C25_PoolBounded ==
    pool # NoRequest =>
        /\ Cardinality(pool.running) <= pool.max_workers
        /\ Cardinality(Outstanding) <= pool.max_workers

\* The part that holds: the executor never runs more than max_workers items.
RunningBounded ==
    pool # NoRequest => Cardinality(pool.running) <= pool.max_workers

\* The merge of the same successful chunks had they completed in list order.
MergedInListOrder ==
    IF merger.kind = "process_stt_job"
    THEN sorted_by_chunk_index(merger.chunks, SortedSeq(merger.ok))
    ELSE SortedSeq(merger.ok)

DistinctIndices(chs) == \A i, j \in 1..Len(chs) : i # j => chs[i] # chs[j]

MergeOrderIndependentWhenDistinct ==
    (merger # NoRequest /\ merger.out # NoText /\ DistinctIndices(merger.chunks)) =>
        merger.out = MergedInListOrder

\* The overlap of two texts as the claim defines it: the longest L in
\* [10, min(len(prev), len(next), 100)] with prev[-L:] and next[:L] equal up
\* to case, 0 when there is none.
LongestOverlap(prev, next) ==
    LET S == {L \in MinOverlap..Min2(Min2(Len(prev), Len(next)), MaxOverlapSearch) :
                lower(Last(prev, L)) = lower(First(next, L))}
    IN IF S = {} THEN 0 ELSE CHOOSE L \in S : \A K \in S : K <= L

\* Join k appended chunk text k+1 without its overlap with chunk text k.
JoinedAsClaimed(k) ==
    LET prev == overlap.transcriptions[k]
        next == overlap.transcriptions[k + 1]
    IN /\ overlap.removed[k] = LongestOverlap(prev, next)
       /\ overlap.removed[k] <= Len(prev)
       /\ overlap.appended[k] = SubSeq(next, overlap.removed[k] + 1, Len(next))

\* C27: at every join of consecutive chunk texts prev and next, the prefix
\* removed from next is the longest overlap of prev and next within
\* [10, min(len(prev), len(next), 100)], never longer than prev, and nothing
\* is removed when there is none.
C27_OverlapRemoved ==
    overlap # NoRequest => \A k \in 1..Len(overlap.removed) : JoinedAsClaimed(k)

\* The same for the first join, where the text merged so far is the first
\* chunk text.
FirstJoinAsClaimed ==
    (overlap # NoRequest /\ overlap.removed # <<>>) => JoinedAsClaimed(1)

\* C28: a stored job that is PROCESSING or COMPLETED has started_at set, and
\* one that is COMPLETED or FAILED has completed_at set.
C28_TimestampsSet ==
    \A j \in JobIds : Exists(j) =>
        /\ store[j].status \in {PROCESSING, COMPLETED} => store[j].started_at
        /\ store[j].status \in {COMPLETED, FAILED} => store[j].completed_at

\* ceil(T / d) for T >= 0, d > 0
Ceil(T, d) == (T + d - 1) \div d

\* The fixed-duration chunk list is exactly the windows of the audio.
ExactWindows ==
    LET T == chunkerIn.audio_length_ms
        d == chunkerIn.chunk_duration_ms
    IN /\ Len(chunkerOut) = Ceil(T, d)
       /\ \A k \in 1..Len(chunkerOut) :
             /\ chunkerOut[k].chunk_index = k - 1
             /\ chunkerOut[k].start_ms = (k - 1) * d
             /\ chunkerOut[k].end_ms = Min2(k * d, T)
             /\ chunkerOut[k].start_ms < chunkerOut[k].end_ms
       /\ \A k \in 1..(Len(chunkerOut) - 1) :
             chunkerOut[k].end_ms = chunkerOut[k + 1].start_ms
       /\ Len(chunkerOut) > 0 =>
             chunkerOut[1].start_ms = 0 /\ chunkerOut[Len(chunkerOut)].end_ms = T

\* C29: fixed-duration chunking of T ms with window d returns exactly
\* ceil(T/d) chunks with indices 0..n-1, chunk i spanning
\* [i*d, min((i+1)*d, T)], contiguous and covering [0, T].
C29_FixedWindows ==
    chunkerOut # NoWindows => ExactWindows

\* The same for calls in which every export succeeds.
FixedWindowsWhenExported ==
    (chunkerOut # NoWindows
        /\ \A i \in 1..Len(chunkerIn.exported) : chunkerIn.exported[i]) => ExactWindows

\* The call took the silence path and split at least one range.
SplitSomeRange ==
    /\ chunkerIn # NoCall /\ chunkerIn.strategy = "silence_based"
    /\ chunkerIn.detect = "ok"
    /\ \E i \in 1..Len(chunkerIn.ranges) : chunkerIn.ranges[i] > 1

\* C30: when the silence chunker has split a range, the chunk_index values of
\* the returned chunks (hence their file names) are pairwise distinct, and
\* ascending index order is ascending start time order, which is the order of
\* the returned list.
C30_SplitIndicesOrdered ==
    (chunkerOut # NoChunks /\ SplitSomeRange) =>
        \A i, j \in 1..Len(chunkerOut) : i < j => chunkerOut[i] < chunkerOut[j]

\* The same for calls whose only split range is the last one.
SplitLastOnly ==
    /\ SplitSomeRange
    /\ \A i \in 1..(Len(chunkerIn.ranges) - 1) : chunkerIn.ranges[i] <= 1

SplitIndicesOrderedWhenLast ==
    (chunkerOut # NoChunks /\ SplitLastOnly) =>
        \A i, j \in 1..Len(chunkerOut) : i < j => chunkerOut[i] < chunkerOut[j]

----------------------------------------------------------------------------
(* Chunk-phase failures *)

\* The delivery just handled ended inside the chunk phase.
ChunkPhaseFailed == pc = "idle" /\ chunk_fault # "none"

PermanentChunkFaults == {"decoder_missing", "unsupported_format", "corrupted"}

\* Classification and disposition alone.
ChunkFaultClassified ==
    ChunkPhaseFailed =>
        IF chunk_fault \in PermanentChunkFaults
        THEN outcome = "permanent" /\ disp = <<"reject">> /\ cur \notin msgs
        ELSE /\ outcome = "transient" /\ disp = <<"requeue">>
             /\ \E m \in msgs : m.job = job_id /\ m.state = "queued"
             /\ store[job_id].status = PROCESSING

\* C31: a chunk-phase failure by a missing decoder, an unsupported format or
\* a corrupted file is permanent and ends with the job FAILED and the message
\* dead-lettered; any other chunk-phase failure is transient and ends with the
\* job PROCESSING and the message requeued.
C31_ChunkFailureClassified ==
    /\ ChunkFaultClassified
    /\ (ChunkPhaseFailed /\ chunk_fault \in PermanentChunkFaults)
           => store[job_id].status = FAILED

\* Every chunk-phase failure has the claimed class and disposition, and a
\* permanent one leaves the job FAILED or, when the FAILED write raised, as
\* it was.
ChunkFailureClassifiedUpToWrite ==
    /\ ChunkFaultClassified
    /\ (ChunkPhaseFailed /\ chunk_fault \in PermanentChunkFaults)
           => store[job_id].status \in {FAILED, PROCESSING}

----------------------------------------------------------------------------
(* Model download *)

\* The last call of ensure_model_exists went into _download_model and raised.
DownloadFailed ==
    /\ downloader.pc = "idle"
    /\ downloader.returned \notin {"none", "path"}
    /\ downloader.model \in DOMAIN MODEL_CONFIGS

NothingLeft ==
    /\ downloader.file = NoFile
    /\ downloader.model \notin downloader.validated_models

\* A call for a model that is already validated returns the path and
\* downloads nothing.
RepeatedCallCached ==
    (/\ downloader.pc = "idle"
     /\ downloader'.calls = downloader.calls + 1
     /\ downloader'.model \in downloader.validated_models)
        => /\ downloader'.pc = "idle"
           /\ downloader'.returned = "path"
           /\ downloader'.downloads = downloader.downloads
           /\ downloader'.file = downloader.file

\* C32: after a failed download no file is left at the model path and the
\* model is not recorded as validated; after a success a repeated call
\* returns the path without downloading again.
C32_DownloadIdempotent ==
    /\ [](DownloadFailed => NothingLeft)
    /\ [][RepeatedCallCached]_vars

\* The same, for failed downloads whose cleanup unlink did not raise.
DownloadIdempotentWhenUnlinkWorks ==
    /\ [](DownloadFailed /\ downloader.cleanup # "failed" => NothingLeft)
    /\ [][RepeatedCallCached]_vars

\* A failed call never records the model, whatever the cleanup did.
FailedNotValidated ==
    DownloadFailed => downloader.model \notin downloader.validated_models

----------------------------------------------------------------------------
(* Shutdown *)

InFlight == {h \in Handlers : consumer.handlers[h] # "idle"}

\* No message is handed to the handler once the signal has been received.
NoDispatchAfterSignal == ~consumer.dispatched_after_signal

\* A step that closes a connection is taken with no handler in flight.
ClosedAfterDrain ==
    ((consumer.queue_open /\ ~consumer'.queue_open)
        \/ (consumer.db_open /\ ~consumer'.db_open)) => InFlight = {}

\* No handler used a connection that was closed.
NoOperationOnClosed ==
    ~consumer.db_op_on_closed /\ ~consumer.queue_op_on_closed

\* C33: after the signal no new message is dispatched, the connections are
\* closed only when no orchestration is in flight, and no orchestration
\* operates on a closed connection.
C33_GracefulShutdown ==
    /\ []NoDispatchAfterSignal
    /\ [][ClosedAfterDrain]_vars
    /\ []NoOperationOnClosed

\* The connections are closed only by shutdown, after the signal.
ClosedOnlyAfterSignal ==
    (~consumer.queue_open \/ ~consumer.db_open) => consumer.shutdown_event

\* Once the queue connection is closed no further message is dispatched.
NoDispatchAfterQueueClosed ==
    [][~consumer.queue_open => consumer'.dispatched = consumer.dispatched]_vars

\* Every closing step is taken with no handler in flight.
ConnectionsClosedAfterDrain == [][ClosedAfterDrain]_vars

----------------------------------------------------------------------------
(* Dispositions of the handler *)

\* handle_stt_message has returned for the message cur.
HandlerReturned == pc = "idle" /\ cur # NoMsg

\* C34: for every delivered message the handler issues exactly one
\* disposition call (ack, or reject with or without requeue): never a reject
\* after an attempted ack, never a return without a disposition.
C34_ExactlyOneDisposition ==
    HandlerReturned => Len(disp) = 1 /\ disp[1] \in {"ack", "requeue", "reject"}

\* The handler never returns without a disposition call, and a second call
\* is the reject(requeue=True) of `except Exception` after a call that raised.
AtLeastOneDisposition ==
    HandlerReturned =>
        /\ Len(disp) \in {1, 2}
        /\ disp[1] \in {"ack", "requeue", "reject"}
        /\ Len(disp) = 2 => (disp[1] \in {"ack", "reject"} /\ disp[2] = "requeue")

----------------------------------------------------------------------------
(* Acknowledgement *)

----------------------------------------------------------------------------
(* COMPLETED is final *)

\* C36: once the stored status of a job is COMPLETED, no later write changes
\* its status, transcription_text or result path.
C36_CompletedIsFinal ==
    [][\A j \in JobIds :
         (Exists(j) /\ store[j].status = COMPLETED) =>
            /\ store'[j].status = COMPLETED
            /\ store'[j].transcription_text = store[j].transcription_text
            /\ store'[j].minio_result_path = store[j].minio_result_path]_vars

\* With deliveries handled one at a time, a text and a result path that were
\* stored are never replaced by different ones.
StoredResultStable ==
    [][\A j \in JobIds :
         (Exists(j) /\ store[j].transcription_text # NoText) =>
            /\ store'[j].transcription_text = store[j].transcription_text
            /\ store'[j].minio_result_path = store[j].minio_result_path]_vars

----------------------------------------------------------------------------
(* Termination of the retry cycle *)

\* The broker holds a message of job j that is not disposed of.
MessagePending(j) ==
    \E m \in msgs : m.kind = "valid" /\ m.job = j /\ m.state \in {"queued", "inflight"}

Settled(j) ==
    /\ ~MessagePending(j)
    /\ Exists(j) => store[j].status \in {COMPLETED, FAILED}

\* C37: when faults stop from some point on, every pending message is
\* eventually acked or rejected without requeue, with the job's stored status
\* COMPLETED or FAILED; no message is requeued for ever.
C37_EventuallySettled == \A j \in JobIds : MessagePending(j) ~> Settled(j)

\* The message part alone: no message stays pending.
MessagesEventuallyDisposed ==
    \A j \in JobIds : MessagePending(j) ~> ~MessagePending(j)

\* A job is left without a message and without a terminal status only by a
\* reject after a permanent error whose FAILED write was lost.
UnsettledOnlyAfterLostWrite ==
    \A j \in JobIds :
        (pc = "idle" /\ ~MessagePending(j) /\ Exists(j)
            /\ store[j].status \notin {COMPLETED, FAILED}) =>
            /\ job_id = j /\ disp = <<"reject">> /\ outcome = "permanent"
            /\ store[j].status = PROCESSING

----------------------------------------------------------------------------
(* Stored chunk list *)

CompletedEntries(seq) == {i \in 1..Len(seq) : seq[i] = COMPLETED}

\* C38: for a COMPLETED job the number of stored chunks with status
\* COMPLETED equals the stored chunks_completed, and every chunk that was
\* transcribed successfully is stored as COMPLETED.
C38_StoredChunksConsistent ==
    \A j \in JobIds :
        (Exists(j) /\ store[j].status = COMPLETED) =>
            /\ Cardinality(CompletedEntries(store[j].chunks)) = store[j].chunks_completed
            /\ \A c \in audio[j].ok : store[j].chunks[c + 1] = COMPLETED

\* The stored count is the number of chunks transcribed successfully and
\* the stored list has chunks_total entries: only the statuses in the stored
\* chunks[] are never rewritten.
ChunksCompletedCounted ==
    \A j \in JobIds :
        (Exists(j) /\ store[j].status = COMPLETED) =>
            /\ store[j].chunks_completed = Cardinality(audio[j].ok)
            /\ Len(store[j].chunks) = store[j].chunks_total
            /\ CompletedEntries(store[j].chunks) = {}

----------------------------------------------------------------------------
(* PENDING jobs and their messages *)

\* The stored documents a published message names, as the repository of the
\* consumer that serves its submitter finds them.
JobsOf(m) ==
    IF m.via = "TaskService"
    THEN TaskRepository_get_job(collection, m.job_id)
    ELSE MongoTaskRepository_get_job(collection, m.job_id)

HasMessage(i) == \E k \in 1..Len(queue) : i \in JobsOf(queue[k])

\* C39: every stored job whose status is PENDING has a message for its job id
\* in the queue: a submission whose publish step fails leaves no PENDING job
\* without a message.
C39_PendingHasMessage ==
    \A i \in 1..Len(collection) :
        collection[i].status = PENDING => HasMessage(i)

\* What the submitters do guarantee: a PENDING job without a message was
\* inserted by a call whose publish raised, or by TaskService, whose message
\* carries no job id.
PendingWithoutMessageOnlyAfterFault ==
    \A k \in 1..Len(submits) :
        LET c == submits[k] IN
        (c.inserted # 0 /\ ~HasMessage(c.inserted)) =>
            \/ c.published = 0
            \/ queue[c.published].via = "TaskService"

\* Nothing is stored without a submit call that inserted it, and the job is
\* inserted before the message is published.
PublishedOnlyAfterInsert ==
    /\ \A i \in 1..Len(collection) : \E k \in 1..Len(submits) : submits[k].inserted = i
    /\ \A k \in 1..Len(submits) : submits[k].published # 0 => submits[k].inserted # 0

----------------------------------------------------------------------------
(* The silence-aware chunker on short audio *)

SilenceReturned == chunkerIn # NoCall /\ chunkerOut # NoWindows

\* C40: for audio in which the silence detector finds at least one non-silent
\* region, the silence-aware chunker returns at least one chunk: when trimming
\* and the minimum-duration filter remove every candidate region, it falls
\* back to fixed-duration chunking.
C40_SilenceChunkerNeverEmpty ==
    (/\ SilenceReturned
     /\ chunkerIn.detect = "ok" /\ chunkerIn.export_ok
     /\ chunkerIn.nonsilent_ranges # <<>>) =>
        Len(chunkerOut) >= 1

\* What the chunker does guarantee: the documented fallback (no region found,
\* or a failing detection) returns the fixed-duration windows of the audio,
\* and a region that is still at least min_chunk_duration long after trimming
\* yields a chunk.
FallbackWhenNoRegion ==
    (/\ SilenceReturned /\ chunkerIn.export_ok
     /\ chunkerIn.detect = "error" \/ chunkerIn.nonsilent_ranges = <<>>) =>
        /\ Len(chunkerOut) = Ceil(chunkerIn.audio_length_ms, Ms(chunk_duration))
        /\ Len(chunkerOut) >= 1

LongRegionKept ==
    (/\ SilenceReturned /\ chunkerIn.detect = "ok" /\ chunkerIn.export_ok
     /\ chunkerIn.nonsilent_ranges # <<>>) =>
        LET kept == filtered_ranges(chunkerIn) IN
        (\E i \in 1..Len(kept) : kept[i][2] - kept[i][1] >= Ms(min_chunk_duration))
            <=> Len(chunkerOut) >= 1

\* With trimming on, audio shorter than 10 s never yields a chunk of its own.
ShortAudioAlwaysEmpty ==
    (/\ SilenceReturned /\ chunkerIn.detect = "ok"
     /\ chunkerIn.nonsilent_ranges # <<>> /\ chunkerIn.filter_intro_outro
     /\ chunkerIn.audio_length_ms < Ms(intro_threshold) + Ms(outro_threshold)) =>
        chunkerOut = <<>>

====
